---- MODULE Spec2Model ----
(***************************************************************************)
(* A model of the REOX compiler front end (reox-lang): the lexer, the      *)
(* recursive-descent parser, the tree-walking interpreter and the type     *)
(* checker.                                                                *)
(*                                                                         *)
(* A character is a one-character string; a source text is a sequence of   *)
(* characters.  Byte offsets are those of the UTF-8 encoding: every        *)
(* character of the model is one byte wide except EAcute (U+00E9), which   *)
(* is two bytes wide and alphabetic.                                       *)
(***************************************************************************)
EXTENDS Integers, Sequences, FiniteSets, TLC

VARIABLES
  source,      \* tokenize's argument: the source text
  lexer,       \* the Lexer struct: chars (as the count of consumed characters), line, column, current_pos
  tokens,      \* tokenize's local `tokens` vector
  lexResult,   \* [k |-> "Running"], or what tokenize returned
  parseInput,  \* the program the token slice was made from
  ptokens,     \* Parser.tokens: the token slice given to parse
  current,     \* Parser.current
  declarations,\* parse_program's local `declarations` vector
  parseResult, \* [k |-> "Running"], or the Program parse returned and the error it printed
  ast,         \* Interpreter::eval's argument: the Program to evaluate
  interp,      \* the Interpreter struct: env (its scopes), structs, functions
  evalPos,     \* eval's loop over ast.declarations: how many it has visited
  evalResult,  \* [k |-> "Running"], what eval returned, or that it does not return
  evalTrace,   \* observation: the calls, statements and returns eval executed, in order
  evalDepths,  \* observation: the depth of env.scopes after each push and pop
  evalFrames,  \* observation: env.scopes before and after each nested block, if block and while body
  opInput,     \* the arguments of an operation that is applied on its own
  opResult,    \* [k |-> "Pending"], or what the operation returned
  checkInput,  \* what the program given to check_program was made from
  checkAst,    \* check_program's argument: the Program to check
  checker,     \* the TypeChecker struct: symbols (scopes, structs, functions), errors, current_return_type
  checkTurn,   \* the turns check_program's two loops have taken
  checkResult, \* [k |-> "Running"], or what check_program returned
  env,         \* the scopes of an Environment that is operated on its own
  envOp        \* observation: the last operation on env, the scopes before it and what it returned

lexVars == <<source, lexer, tokens, lexResult>>
parseVars == <<parseInput, ptokens, current, declarations, parseResult>>

interpVars == <<ast, interp, evalPos, evalResult, evalTrace, evalDepths, evalFrames>>

opVars == <<opInput, opResult>>

checkVars == <<checkInput, checkAst, checker, checkTurn, checkResult>>

envVars == <<env, envOp>>

vars == <<lexVars, parseVars, interpVars, opVars, checkVars, envVars>>

notLexVars == <<parseVars, interpVars, opVars, checkVars, envVars>>
notParseVars == <<lexVars, interpVars, opVars, checkVars, envVars>>
notInterpVars == <<lexVars, parseVars, opVars, checkVars, envVars>>
notOpVars == <<lexVars, parseVars, interpVars, checkVars, envVars>>
notCheckVars == <<lexVars, parseVars, interpVars, opVars, envVars>>
notEnvVars == <<lexVars, parseVars, interpVars, opVars, checkVars>>

\* the values of the variables of a stage that is not running
LexIdle == source = <<>> /\ lexer = [idx |-> 0] /\ tokens = <<>> /\ lexResult = [k |-> "Idle"]
ParseIdle ==
  parseInput = <<>> /\ ptokens = <<>> /\ current = 0 /\ declarations = <<>> /\ parseResult = [k |-> "Idle"]
InterpIdle ==
  /\ ast = <<>> /\ interp = <<>> /\ evalPos = 0 /\ evalResult = [k |-> "Idle"]
  /\ evalTrace = <<>> /\ evalDepths = <<>> /\ evalFrames = <<>>
OpIdle == opInput = <<>> /\ opResult = [k |-> "Idle"]
CheckIdle ==
  checkInput = <<>> /\ checkAst = <<>> /\ checker = <<>> /\ checkTurn = 0 /\ checkResult = [k |-> "Idle"]
EnvIdle == env = <<>> /\ envOp = [op |-> "Idle"]

(***************************************************************************)
(* Bounds of the checked inputs.                                           *)
(***************************************************************************)
OpLen == 3      \* longest source over the operator alphabet
TextLen == 4    \* longest source over the text alphabet
StrLen == 5     \* longest source over the string alphabet
NumLen == 5     \* longest source over the number alphabet

EAcute == "U+00E9"
LF == "\n"
Quote == "\""
Backslash == "\\"
None == ""      \* Option::None of a character

OpChars == {"?", ".", "-", ">", "=", "!", "<", "+", "*", "/", "%", "&", "|", " ", "a"}
TextChars == {"a", "1", " ", LF, "/", "*", Quote, EAcute}
StrChars == {Quote, Backslash, "n", "q", LF, "a"}
NumChars == {"1", "2", "5", ".", "a"}

SeqsUpTo(S, n) == UNION {[1..k -> S] : k \in 0..n}


(***************************************************************************)
(* Characters and byte offsets.                                            *)
(***************************************************************************)
Width(c) == IF c = EAcute THEN 2 ELSE 1

RECURSIVE ByteLen(_)
ByteLen(s) == IF s = <<>> THEN 0 ELSE Width(Head(s)) + ByteLen(Tail(s))

\* byte offset of the i-th character (1-based) of the source
BytePos(i) == ByteLen(SubSeq(source, 1, i - 1))

IsCharBoundary(b) == \E i \in 1..(Len(source) + 1) : BytePos(i) = b

RECURSIVE Concat(_)
Concat(s) == IF s = <<>> THEN "" ELSE Head(s) \o Concat(Tail(s))

\* &self.source[from..to]: the text between two byte offsets
Slice(from, to) ==
  LET first == CHOOSE i \in 1..(Len(source) + 1) : BytePos(i) = from
      last == CHOOSE i \in 1..(Len(source) + 1) : BytePos(i) = to
  IN SubSeq(source, first, last - 1)

AsciiDigits == {"0", "1", "2", "3", "4", "5", "6", "7", "8", "9"}
AsciiLower == {"a", "b", "c", "d", "e", "f", "g", "h", "i", "j", "k", "l", "m",
               "n", "o", "p", "q", "r", "s", "t", "u", "v", "w", "x", "y", "z"}
AsciiUpper == {"A", "B", "C", "D", "E", "F", "X"}
is_ascii_digit(c) == c \in AsciiDigits
is_ascii_hexdigit(c) == c \in AsciiDigits \cup {"a", "b", "c", "d", "e", "f", "A", "B", "C", "D", "E", "F"}
is_alphanumeric(c) == c \in AsciiDigits \cup AsciiLower \cup AsciiUpper \cup {EAcute}

DigitVal(c) ==
  CASE c = "0" -> 0 [] c = "1" -> 1 [] c = "2" -> 2 [] c = "3" -> 3 [] c = "4" -> 4
    [] c = "5" -> 5 [] c = "6" -> 6 [] c = "7" -> 7 [] c = "8" -> 8 [] c = "9" -> 9
    [] c \in {"a", "A"} -> 10 [] c \in {"b", "B"} -> 11 [] c \in {"c", "C"} -> 12
    [] c \in {"d", "D"} -> 13 [] c \in {"e", "E"} -> 14 [] c \in {"f", "F"} -> 15

\* the value of a digit string in a radix (i64::from_str_radix, str::parse::<i64>)
RECURSIVE ParseRadix(_, _, _)
ParseRadix(s, radix, acc) ==
  IF s = <<>> THEN acc ELSE ParseRadix(Tail(s), radix, acc * radix + DigitVal(Head(s)))

(***************************************************************************)
(* Tokens (lexer/token.rs).                                                *)
(***************************************************************************)
Span_new(line, column, start, end) ==
  [line |-> line, column |-> column, start |-> start, end |-> end]

Tk(tag) == [tag |-> tag]
Ident(s) == [tag |-> "Ident", s |-> s]
IntLit(n) == [tag |-> "IntLit", n |-> n]
FloatLit(m, e) == [tag |-> "FloatLit", mant |-> m, scale |-> e]
StringLit(s) == [tag |-> "StringLit", s |-> s]

Token_new(kind, span) == [kind |-> kind, span |-> span]

Token_eof(pos) == [kind |-> Tk("Eof"), span |-> Span_new(0, 0, pos, pos)]

keyword_from_str(s) ==
  CASE s = "fn" -> Tk("Fn") [] s = "let" -> Tk("Let") [] s = "mut" -> Tk("Mut")
    [] s = "if" -> Tk("If") [] s = "else" -> Tk("Else") [] s = "while" -> Tk("While")
    [] s = "for" -> Tk("For") [] s = "in" -> Tk("In") [] s = "return" -> Tk("Return")
    [] s = "struct" -> Tk("Struct") [] s = "match" -> Tk("Match") [] s = "import" -> Tk("Import")
    [] s = "extern" -> Tk("Extern") [] s = "true" -> Tk("True") [] s = "false" -> Tk("False")
    [] s = "int" -> Tk("Int") [] s = "float" -> Tk("Float") [] s = "string" -> Tk("String")
    [] s = "bool" -> Tk("Bool") [] s = "void" -> Tk("Void")
    [] s = "kind" -> Tk("Kind") [] s = "layer" -> Tk("Layer") [] s = "panel" -> Tk("Panel")
    [] s = "action" -> Tk("Action") [] s = "maybe" -> Tk("Maybe") [] s = "effect" -> Tk("Effect")
    [] s = "bind" -> Tk("Bind") [] s = "emit" -> Tk("Emit") [] s = "signal" -> Tk("Signal")
    [] s = "when" -> Tk("When") [] s = "self" -> Tk("Self_") [] s = "pub" -> Tk("Pub")
    [] s = "async" -> Tk("Async") [] s = "await" -> Tk("Await")
    [] s = "guard" -> Tk("Guard") [] s = "defer" -> Tk("Defer") [] s = "throw" -> Tk("Throw")
    [] s = "try" -> Tk("Try") [] s = "catch" -> Tk("Catch") [] s = "where" -> Tk("Where")
    [] s = "typealias" -> Tk("Typealias") [] s = "protocol" -> Tk("Protocol")
    [] s = "extension" -> Tk("Extension") [] s = "static" -> Tk("Static")
    [] s = "const" -> Tk("Const") [] s = "nil" -> Tk("Nil")
    [] s = "gesture" -> Tk("Gesture") [] s = "on_tap" -> Tk("OnTap") [] s = "on_pan" -> Tk("OnPan")
    [] s = "on_swipe" -> Tk("OnSwipe") [] s = "on_pinch" -> Tk("OnPinch")
    [] s = "on_rotate" -> Tk("OnRotate")
    [] OTHER -> Ident(s)

(***************************************************************************)
(* The lexer (lexer/mod.rs).  A scanning function returns the lexer it     *)
(* leaves behind together with its result.                                 *)
(***************************************************************************)
Lexer_new == [idx |-> 0, line |-> 1, column |-> 1, current_pos |-> 0]

TokOk(tok) == [k |-> "Ok", tok |-> tok]
LexError_new(message, line, column) == [k |-> "Err", message |-> message, line |-> line, column |-> column]
LexPanic == [k |-> "Panic"]

\* advance with the bug "a line feed does not reset the column"
advance_no_column_reset(lx) ==
  IF lx.idx < Len(source)
  THEN LET ch == source[lx.idx + 1]
           pos == BytePos(lx.idx + 1)
       IN [some |-> TRUE, pos |-> pos, ch |-> ch,
           lx |-> [idx |-> lx.idx + 1,
                   line |-> IF ch = LF THEN lx.line + 1 ELSE lx.line,
                   column |-> lx.column + 1,
                   current_pos |-> pos]]
  ELSE [some |-> FALSE, pos |-> 0, ch |-> None, lx |-> lx]

advance(lx) ==
  IF lx.idx < Len(source)
  THEN LET ch == source[lx.idx + 1]
           pos == BytePos(lx.idx + 1)
       IN [some |-> TRUE, pos |-> pos, ch |-> ch,
           lx |-> [idx |-> lx.idx + 1,
                   line |-> IF ch = LF THEN lx.line + 1 ELSE lx.line,
                   column |-> IF ch = LF THEN 1 ELSE lx.column + 1,
                   current_pos |-> pos]]
  ELSE [some |-> FALSE, pos |-> 0, ch |-> None, lx |-> lx]

\* peek with the bug "looks one character too far"
peek_too_far(lx) == IF lx.idx + 1 < Len(source) THEN source[lx.idx + 2] ELSE None

peek(lx) == IF lx.idx < Len(source) THEN source[lx.idx + 1] ELSE None

peek_next(lx) == IF lx.idx + 1 < Len(source) THEN source[lx.idx + 2] ELSE None

RECURSIVE skip_line_comment(_)
skip_line_comment(lx) ==
  IF peek(lx) # None /\ peek(lx) # LF THEN skip_line_comment(advance(lx).lx) ELSE lx

\* the block comment loop with the bug "the first `*/` ends the comment"
RECURSIVE skip_block_comment_flat(_, _)
skip_block_comment_flat(lx, depth) ==
  IF depth > 0
  THEN LET a == advance(lx) IN
       IF ~a.some THEN a.lx
       ELSE IF a.ch = "*" /\ peek(a.lx) = "/" THEN skip_block_comment_flat(advance(a.lx).lx, 0)
       ELSE IF a.ch = "/" /\ peek(a.lx) = "*" THEN skip_block_comment_flat(advance(a.lx).lx, depth + 1)
       ELSE skip_block_comment_flat(a.lx, depth)
  ELSE lx

RECURSIVE skip_block_comment(_, _)
skip_block_comment(lx, depth) ==
  IF depth > 0
  THEN LET a == advance(lx) IN
       IF ~a.some THEN a.lx
       ELSE IF a.ch = "*" /\ peek(a.lx) = "/" THEN skip_block_comment(advance(a.lx).lx, depth - 1)
       ELSE IF a.ch = "/" /\ peek(a.lx) = "*" THEN skip_block_comment(advance(a.lx).lx, depth + 1)
       ELSE skip_block_comment(a.lx, depth)
  ELSE lx

RECURSIVE skip_whitespace_and_comments(_)
skip_whitespace_and_comments(lx) ==
  LET c == peek(lx) IN
  IF c \in {" ", "\t", "\r", LF} THEN skip_whitespace_and_comments(advance(lx).lx)
  ELSE IF c = "/"
  THEN IF peek_next(lx) = "/"
       THEN skip_whitespace_and_comments(skip_line_comment(advance(advance(lx).lx).lx))
       ELSE IF peek_next(lx) = "*"
       THEN skip_whitespace_and_comments(skip_block_comment(advance(advance(lx).lx).lx, 1))
       ELSE lx
  ELSE lx

ident_char(ch) == is_alphanumeric(ch) \/ ch = "_"

\* the loop of scan_identifier: the lexer after the identifier and the last end_pos
RECURSIVE scan_ident_chars(_, _)
scan_ident_chars(lx, end_pos) ==
  IF peek(lx) # None /\ ident_char(peek(lx))
  THEN LET a == advance(lx) IN scan_ident_chars(a.lx, a.pos)
  ELSE [lx |-> lx, end_pos |-> end_pos]

scan_identifier(lx, start_pos, start_line, start_col) ==
  LET w == scan_ident_chars(lx, start_pos) IN
  IF ~IsCharBoundary(w.end_pos + 1)
  THEN [lx |-> w.lx, res |-> LexPanic]     \* &self.source[start_pos..=end_pos] ends inside a character
  ELSE LET text == Concat(Slice(start_pos, w.end_pos + 1))
           span == Span_new(start_line, start_col, start_pos, w.end_pos + 1)
       IN [lx |-> w.lx, res |-> TokOk(Token_new(keyword_from_str(text), span))]

\* the hex-digit loop of scan_number
RECURSIVE scan_hex_digits(_, _)
scan_hex_digits(lx, end_pos) ==
  IF peek(lx) # None /\ is_ascii_hexdigit(peek(lx))
  THEN LET a == advance(lx) IN scan_hex_digits(a.lx, a.pos)
  ELSE [lx |-> lx, end_pos |-> end_pos]

\* the decimal loop with the bug "a '.' after the digits belongs to the number"
RECURSIVE scan_decimal_takes_dot(_, _, _)
scan_decimal_takes_dot(lx, end_pos, is_float) ==
  LET ch == peek(lx) IN
  IF ch # None /\ is_ascii_digit(ch)
  THEN LET a == advance(lx) IN scan_decimal_takes_dot(a.lx, a.pos, is_float)
  ELSE IF ch = "." /\ ~is_float
  THEN LET a == advance(lx) IN scan_decimal_takes_dot(a.lx, a.pos, TRUE)
  ELSE [lx |-> lx, end_pos |-> end_pos, is_float |-> is_float]

\* the decimal loop of scan_number
RECURSIVE scan_decimal(_, _, _)
scan_decimal(lx, end_pos, is_float) ==
  LET ch == peek(lx) IN
  IF ch # None /\ is_ascii_digit(ch)
  THEN LET a == advance(lx) IN scan_decimal(a.lx, a.pos, is_float)
  ELSE IF ch = "." /\ ~is_float /\ peek_next(lx) # None /\ is_ascii_digit(peek_next(lx))
  THEN LET a == advance(lx) IN scan_decimal(a.lx, a.pos, TRUE)
  ELSE [lx |-> lx, end_pos |-> end_pos, is_float |-> is_float]

\* str::parse::<f64> of digits '.' digits, as mantissa / 10^scale without trailing zeros
RECURSIVE NormFloat(_, _)
NormFloat(mant, scale) ==
  IF scale > 0 /\ mant % 10 = 0 THEN NormFloat(mant \div 10, scale - 1) ELSE FloatLit(mant, scale)

ParseFloat(text) ==
  LET dot == CHOOSE i \in 1..Len(text) : text[i] = "."
      digits == SubSeq(text, 1, dot - 1) \o SubSeq(text, dot + 1, Len(text))
  IN NormFloat(ParseRadix(digits, 10, 0), Len(text) - dot)

scan_number(lx, start_pos, start_line, start_col) ==
  LET rest == SubSeq(source, lx.idx, Len(source))     \* self.source[start_pos..]
      is_hex == Len(rest) >= 2 /\ rest[1] = "0" /\ rest[2] \in {"x", "X"}
  IN IF is_hex
     THEN LET x == advance(lx)
              w == scan_hex_digits(x.lx, x.lx.current_pos)
              text == Slice(start_pos, w.end_pos + 1)
              hex_digits == SubSeq(text, 3, Len(text))
              span == Span_new(start_line, start_col, start_pos, w.end_pos + 1)
          IN IF hex_digits # <<>>
             THEN [lx |-> w.lx, res |-> TokOk(Token_new(IntLit(ParseRadix(hex_digits, 16, 0)), span))]
             ELSE [lx |-> w.lx, res |-> LexError_new("invalid hex literal", start_line, start_col)]
     ELSE LET w == scan_decimal(lx, start_pos, FALSE)
              text == Slice(start_pos, w.end_pos + 1)
              span == Span_new(start_line, start_col, start_pos, w.end_pos + 1)
          IN IF w.is_float
             THEN [lx |-> w.lx, res |-> TokOk(Token_new(ParseFloat(text), span))]
             ELSE [lx |-> w.lx, res |-> TokOk(Token_new(IntLit(ParseRadix(text, 10, 0)), span))]

\* the loop of scan_string, with the decoded value so far
RECURSIVE scan_string_loop(_, _, _, _)
scan_string_loop(lx, value, start_line, start_col) ==
  LET a == advance(lx) IN
  IF ~a.some THEN [lx |-> a.lx, end_pos |-> 0, value |-> value,
                   err |-> LexError_new("unterminated string literal", start_line, start_col)]
  ELSE IF a.ch = Quote THEN [lx |-> a.lx, end_pos |-> a.pos, value |-> value, err |-> [k |-> "None"]]
  ELSE IF a.ch = Backslash
  THEN LET e == advance(a.lx) IN
       IF ~e.some
       THEN [lx |-> e.lx, end_pos |-> 0, value |-> value,
             err |-> LexError_new("unexpected end of file in escape sequence", e.lx.line, e.lx.column)]
       ELSE IF e.ch \in {"n", "t", "r", Backslash, Quote, "0"}
       THEN scan_string_loop(e.lx,
              value \o (CASE e.ch = "n" -> "\n" [] e.ch = "t" -> "\t" [] e.ch = "r" -> "\r"
                          [] e.ch = Backslash -> "\\" [] e.ch = Quote -> "\"" [] e.ch = "0" -> "NUL"),
              start_line, start_col)
       ELSE [lx |-> e.lx, end_pos |-> 0, value |-> value,
             err |-> LexError_new("invalid escape sequence", e.lx.line, e.lx.column)]
  ELSE IF a.ch = LF
  THEN [lx |-> a.lx, end_pos |-> 0, value |-> value,
        err |-> LexError_new("unterminated string literal", start_line, start_col)]
  ELSE scan_string_loop(a.lx, value \o a.ch, start_line, start_col)

scan_string(lx, start_pos, start_line, start_col) ==
  LET w == scan_string_loop(lx, "", start_line, start_col) IN
  IF w.err.k = "Err" THEN [lx |-> w.lx, res |-> w.err]
  ELSE [lx |-> w.lx,
        res |-> TokOk(Token_new(StringLit(w.value), Span_new(start_line, start_col, start_pos, w.end_pos + 1)))]

\* the punctuation arms of next_token: the token kind and its length in characters for
\* the character ch followed by p (None at the end of input)
punct(ch, p) ==
  CASE ch = "(" -> [kind |-> Tk("LParen"), len |-> 1]
    [] ch = ")" -> [kind |-> Tk("RParen"), len |-> 1]
    [] ch = "{" -> [kind |-> Tk("LBrace"), len |-> 1]
    [] ch = "}" -> [kind |-> Tk("RBrace"), len |-> 1]
    [] ch = "[" -> [kind |-> Tk("LBracket"), len |-> 1]
    [] ch = "]" -> [kind |-> Tk("RBracket"), len |-> 1]
    [] ch = "," -> [kind |-> Tk("Comma"), len |-> 1]
    [] ch = ";" -> [kind |-> Tk("Semicolon"), len |-> 1]
    [] ch = ":" -> [kind |-> Tk("Colon"), len |-> 1]
    [] ch = "@" -> [kind |-> Tk("At"), len |-> 1]
    [] ch = "~" -> [kind |-> Tk("BitwiseNot"), len |-> 1]
    [] ch = "^" -> [kind |-> Tk("BitwiseXor"), len |-> 1]
    [] ch = "." -> IF p = "." THEN [kind |-> Tk("DotDot"), len |-> 2]
                   ELSE [kind |-> Tk("Dot"), len |-> 1]
    [] ch = "+" -> IF p = "=" THEN [kind |-> Tk("PlusEq"), len |-> 2]
                   ELSE IF p = "+" THEN [kind |-> Tk("PlusPlus"), len |-> 2]
                   ELSE [kind |-> Tk("Plus"), len |-> 1]
    [] ch = "*" -> IF p = "=" THEN [kind |-> Tk("StarEq"), len |-> 2]
                   ELSE [kind |-> Tk("Star"), len |-> 1]
    [] ch = "%" -> IF p = "=" THEN [kind |-> Tk("PercentEq"), len |-> 2]
                   ELSE [kind |-> Tk("Percent"), len |-> 1]
    [] ch = "-" -> IF p = ">" THEN [kind |-> Tk("Arrow"), len |-> 2]
                   ELSE IF p = "-" THEN [kind |-> Tk("MinusMinus"), len |-> 2]
                   ELSE IF p = "=" THEN [kind |-> Tk("MinusEq"), len |-> 2]
                   ELSE [kind |-> Tk("Minus"), len |-> 1]
    [] ch = "/" -> IF p = "=" THEN [kind |-> Tk("SlashEq"), len |-> 2]
                   ELSE [kind |-> Tk("Slash"), len |-> 1]
    [] ch = "=" -> IF p = "=" THEN [kind |-> Tk("EqEq"), len |-> 2]
                   ELSE IF p = ">" THEN [kind |-> Tk("FatArrow"), len |-> 2]
                   ELSE [kind |-> Tk("Eq"), len |-> 1]
    [] ch = "!" -> IF p = "=" THEN [kind |-> Tk("BangEq"), len |-> 2]
                   ELSE [kind |-> Tk("Bang"), len |-> 1]
    [] ch = "<" -> IF p = "=" THEN [kind |-> Tk("LtEq"), len |-> 2]
                   ELSE IF p = "<" THEN [kind |-> Tk("ShiftLeft"), len |-> 2]
                   ELSE [kind |-> Tk("Lt"), len |-> 1]
    [] ch = ">" -> IF p = "=" THEN [kind |-> Tk("GtEq"), len |-> 2]
                   ELSE IF p = ">" THEN [kind |-> Tk("ShiftRight"), len |-> 2]
                   ELSE [kind |-> Tk("Gt"), len |-> 1]
    [] ch = "&" -> IF p = "&" THEN [kind |-> Tk("And"), len |-> 2]
                   ELSE [kind |-> Tk("BitwiseAnd"), len |-> 1]
    [] ch = "|" -> IF p = "|" THEN [kind |-> Tk("Or"), len |-> 2]
                   ELSE [kind |-> Tk("BitwiseOr"), len |-> 1]
    [] ch = "?" -> IF p = "?" THEN [kind |-> Tk("QuestionQuestion"), len |-> 2]
                   ELSE IF p = "." THEN [kind |-> Tk("QuestionDot"), len |-> 2]
                   ELSE [kind |-> Tk("Question"), len |-> 1]
    [] OTHER -> [kind |-> Tk("None"), len |-> 0]

next_token(lx0) ==
  LET lx1 == skip_whitespace_and_comments(lx0)
      start_line == lx1.line
      start_col == lx1.column
      a == advance(lx1)
  IN IF ~a.some THEN [lx |-> a.lx, res |-> TokOk(Token_eof(a.lx.current_pos))]
     ELSE LET pu == punct(a.ch, peek(a.lx)) IN
          IF pu.len = 1
          THEN [lx |-> a.lx, res |-> TokOk(Token_new(pu.kind, Span_new(start_line, start_col, a.pos, a.pos + 1)))]
          ELSE IF pu.len = 2
          THEN [lx |-> advance(a.lx).lx,
                res |-> TokOk(Token_new(pu.kind, Span_new(start_line, start_col, a.pos, a.pos + 2)))]
          ELSE IF a.ch = Quote THEN scan_string(a.lx, a.pos, start_line, start_col)
          ELSE IF is_ascii_digit(a.ch) THEN scan_number(a.lx, a.pos, start_line, start_col)
          ELSE IF a.ch \in AsciiLower \cup AsciiUpper \cup {"_"}
          THEN scan_identifier(a.lx, a.pos, start_line, start_col)
          ELSE [lx |-> a.lx, res |-> LexError_new("unexpected character", start_line, start_col)]

(***************************************************************************)
(* tokenize: one action per iteration of its loop.                         *)
(***************************************************************************)
LexRunning == [k |-> "Running"]

\* comment sources: up to MaxPieces of `/*`, `*/` and `a`, written one after
\* the other or with a space between them
MaxPieces == 7
CommentPieces == {<<"/", "*">>, <<"*", "/">>, <<"a">>}
RECURSIVE Spaced(_, _)
Spaced(pieces, sep) ==
  IF pieces = <<>> THEN <<>>
  ELSE IF Len(pieces) = 1 THEN pieces[1]
  ELSE pieces[1] \o sep \o Spaced(Tail(pieces), sep)
CommentSources ==
  {Spaced(pieces, sep) : pieces \in SeqsUpTo(CommentPieces, MaxPieces), sep \in {<<>>, <<" ">>}}


LexInit ==
  /\ \/ source \in SeqsUpTo(OpChars, OpLen)
     \/ source \in SeqsUpTo(TextChars, TextLen)
     \/ source \in SeqsUpTo(StrChars, StrLen)
  /\ lexer = Lexer_new
  /\ tokens = <<>>
  /\ lexResult = LexRunning
  /\ ParseIdle
  /\ InterpIdle
  /\ OpIdle
  /\ CheckIdle
  /\ EnvIdle

\* next_token()? gave a token that is not Eof: push it and loop
TokenizePush ==
  /\ lexResult.k = "Running"
  /\ LET r == next_token(lexer) IN
     /\ r.res.k = "Ok"
     /\ r.res.tok.kind # Tk("Eof")
     /\ lexer' = r.lx
     /\ tokens' = Append(tokens, r.res.tok)
     /\ UNCHANGED <<source, lexResult, notLexVars>>

\* next_token()? gave Eof: push it, break and return Ok(tokens)
TokenizeEof ==
  /\ lexResult.k = "Running"
  /\ LET r == next_token(lexer) IN
     /\ r.res.k = "Ok"
     /\ r.res.tok.kind = Tk("Eof")
     /\ lexer' = r.lx
     /\ tokens' = Append(tokens, r.res.tok)
     /\ lexResult' = [k |-> "Ok", tokens |-> tokens']
     /\ UNCHANGED <<source, notLexVars>>

\* TokenizeErr with the bug "on an error, return the tokens scanned so far"
TokenizeErr_keeps_tokens ==
  /\ lexResult.k = "Running"
  /\ LET r == next_token(lexer) IN
     /\ r.res.k = "Err"
     /\ lexer' = r.lx
     /\ tokens' = tokens
     /\ lexResult' = [k |-> "Ok", tokens |-> tokens]
     /\ UNCHANGED <<source, notLexVars>>

\* next_token()? gave an error: `?` returns it and the vector is dropped
TokenizeErr ==
  /\ lexResult.k = "Running"
  /\ LET r == next_token(lexer) IN
     /\ r.res.k = "Err"
     /\ lexer' = r.lx
     /\ tokens' = <<>>
     /\ lexResult' = r.res
     /\ UNCHANGED <<source, notLexVars>>

\* next_token() panicked (a slice that ends inside a character)
TokenizePanic ==
  /\ lexResult.k = "Running"
  /\ LET r == next_token(lexer) IN
     /\ r.res.k = "Panic"
     /\ lexer' = r.lx
     /\ tokens' = <<>>
     /\ lexResult' = r.res
     /\ UNCHANGED <<source, notLexVars>>

LexNext == TokenizePush \/ TokenizeEof \/ TokenizeErr \/ TokenizePanic

SpecLex == LexInit /\ [][LexNext]_vars

\* tokenize on numbers and comments: decimal texts, short texts around a hex
\* prefix and a two-byte letter, and comment texts
HexChars == {"0", "x", "1", ".", "a", EAcute}
HexLen == 3
ScanInit ==
  /\ \/ source \in SeqsUpTo(NumChars, NumLen)
     \/ source \in SeqsUpTo(HexChars, HexLen)
     \/ source \in CommentSources
  /\ lexer = Lexer_new
  /\ tokens = <<>>
  /\ lexResult = LexRunning
  /\ ParseIdle
  /\ InterpIdle
  /\ OpIdle
  /\ CheckIdle
  /\ EnvIdle

SpecScan == ScanInit /\ [][LexNext]_vars

(***************************************************************************)
(* Properties of the lexer.                                                *)
(***************************************************************************)
\* the character index (1-based) at a byte offset
CharIdxAt(b) == CHOOSE i \in 1..(Len(source) + 1) : BytePos(i) = b

\* 1-based line and column of the character that starts at byte offset b
LineOf(b) == 1 + Cardinality({i \in 1..Len(source) : source[i] = LF /\ BytePos(i) < b})
ColOf(b) ==
  LET i == CharIdxAt(b)
      lfs == {j \in 1..(i - 1) : source[j] = LF}
      lastLF == IF lfs = {} THEN 0 ELSE CHOOSE j \in lfs : \A j2 \in lfs : j2 <= j
  IN i - lastLF

\* C1: when tokenize succeeds, the token list holds exactly one Eof, it is the last
\* element, and its span has start = end = byte length of the source.
C1_EofSpanAtEndOfInput ==
  lexResult.k = "Ok" =>
    LET ts == lexResult.tokens
        n == Len(ts)
    IN /\ n >= 1
       /\ ts[n].kind = Tk("Eof")
       /\ Cardinality({i \in 1..n : ts[i].kind = Tk("Eof")}) = 1
       /\ ts[n].span.start = ByteLen(source)
       /\ ts[n].span.end = ByteLen(source)

\* the multi-character lexemes of the language, and the token of each single character
PairLexemes ==
  {<<"?", ".", "QuestionDot">>, <<"?", "?", "QuestionQuestion">>, <<"-", ">", "Arrow">>,
   <<"=", ">", "FatArrow">>, <<".", ".", "DotDot">>, <<"=", "=", "EqEq">>, <<"!", "=", "BangEq">>,
   <<"<", "=", "LtEq">>, <<">", "=", "GtEq">>, <<"<", "<", "ShiftLeft">>, <<">", ">", "ShiftRight">>,
   <<"+", "=", "PlusEq">>, <<"-", "=", "MinusEq">>, <<"*", "=", "StarEq">>, <<"/", "=", "SlashEq">>,
   <<"%", "=", "PercentEq">>, <<"+", "+", "PlusPlus">>, <<"-", "-", "MinusMinus">>,
   <<"&", "&", "And">>, <<"|", "|", "Or">>}

SingleTag(c) ==
  CASE c = "?" -> "Question" [] c = "." -> "Dot" [] c = "-" -> "Minus" [] c = "=" -> "Eq"
    [] c = "!" -> "Bang" [] c = "<" -> "Lt" [] c = ">" -> "Gt" [] c = "+" -> "Plus"
    [] c = "*" -> "Star" [] c = "/" -> "Slash" [] c = "%" -> "Percent"
    [] c = "&" -> "BitwiseAnd" [] c = "|" -> "BitwiseOr"

\* C2: maximal munch.  A token that starts at the first character of a two-character
\* lexeme whose second character is adjacent is that two-character token; when one
\* whitespace character separates the two, they are two tokens.
C2_MaximalMunch ==
  \A k \in 1..Len(tokens) :
    LET t == tokens[k]
        i == CharIdxAt(t.span.start)
    IN t.kind # Tk("Eof") =>
       \A pl \in PairLexemes :
         /\ (source[i] = pl[1] /\ i + 1 <= Len(source) /\ source[i + 1] = pl[2]) =>
              (t.kind = Tk(pl[3]) /\ t.span.end = t.span.start + 2)
         /\ (source[i] = pl[1] /\ i + 2 <= Len(source) /\ source[i + 1] = " " /\ source[i + 2] = pl[2]) =>
              /\ t.kind = Tk(SingleTag(pl[1]))
              /\ t.span.end = t.span.start + 1
              /\ lexResult.k = "Ok" => k < Len(tokens)
              /\ k < Len(tokens) =>
                   (tokens[k + 1].kind # Tk("Eof") /\ tokens[k + 1].span.start = t.span.start + 2)

C2_Witness ==
  /\ lexResult.k = "Ok"
  /\ \E k \in 1..Len(tokens) : tokens[k].kind = Tk("QuestionQuestion") /\ k > 1

\* C3: every non-Eof token has start < end <= source length, its line and column are
\* those of the character at byte offset start, and successive tokens do not overlap.
C3_SpansLineColumn ==
  \A k \in 1..Len(tokens) :
    LET t == tokens[k] IN
    t.kind # Tk("Eof") =>
      /\ t.span.start < t.span.end
      /\ t.span.end <= ByteLen(source)
      /\ t.span.line = LineOf(t.span.start)
      /\ t.span.column = ColOf(t.span.start)
      /\ k > 1 => tokens[k - 1].span.end <= t.span.start

C3_Witness ==
  /\ lexResult.k = "Ok"
  /\ Len(tokens) = 3
  /\ tokens[2].span.line = 2
  /\ tokens[2].span.column = 2
  /\ tokens[2].span.start > tokens[1].span.end

\* what a string literal whose opening quote is the character before index j holds:
\* its decoded value and the index of its closing quote, or that it is malformed
RECURSIVE StringBody(_, _)
StringBody(j, value) ==
  IF j > Len(source) THEN [ok |-> FALSE]
  ELSE IF source[j] = Quote THEN [ok |-> TRUE, close |-> j, value |-> value]
  ELSE IF source[j] = LF THEN [ok |-> FALSE]
  ELSE IF source[j] = Backslash
  THEN IF j + 1 > Len(source) THEN [ok |-> FALSE]
       ELSE CASE source[j + 1] = "n" -> StringBody(j + 2, value \o "\n")
              [] source[j + 1] = "t" -> StringBody(j + 2, value \o "\t")
              [] source[j + 1] = "r" -> StringBody(j + 2, value \o "\r")
              [] source[j + 1] = Backslash -> StringBody(j + 2, value \o "\\")
              [] source[j + 1] = Quote -> StringBody(j + 2, value \o "\"")
              [] source[j + 1] = "0" -> StringBody(j + 2, value \o "NUL")
              [] OTHER -> [ok |-> FALSE]
  ELSE StringBody(j + 1, value \o source[j])

\* the next token starts with a quote and the literal is malformed
AtMalformedString ==
  /\ lexResult.k = "Running"
  /\ LET lx == skip_whitespace_and_comments(lexer) IN
     /\ peek(lx) = Quote
     /\ ~StringBody(lx.idx + 2, "").ok

StringTokensDecoded ==
  \A k \in 1..Len(tokens) :
    tokens[k].kind.tag = "StringLit" =>
      LET b == StringBody(CharIdxAt(tokens[k].span.start) + 1, "") IN
      /\ b.ok
      /\ b.value = tokens[k].kind.s
      /\ BytePos(b.close) + 1 = tokens[k].span.end

\* C4: a string literal with only the escapes \n \t \r \\ \" \0 is decoded into the
\* token's value; any other escape, a raw newline or the end of input inside the
\* literal makes tokenize return a LexError and no tokens, whatever was scanned before.
C4_StringEscapes ==
  [][/\ AtMalformedString => (lexResult'.k = "Err" /\ tokens' = <<>>)
     /\ StringTokensDecoded']_vars

C4_Witness ==
  /\ lexResult.k = "Err"
  /\ lexResult.message = "invalid escape sequence"
  /\ Len(source) >= 4
  /\ source[1] = "a"
  /\ source[2] = Quote

(***************************************************************************)
(* The AST (parser/ast.rs).  Nodes are records tagged by t; the spans of   *)
(* the nodes are left out.                                                 *)
(***************************************************************************)
NoneV == [t |-> "None"]
Some(x) == [t |-> "Some", v |-> x]

LitInt(n) == [t |-> "Literal", lit |-> [t |-> "Int", v |-> n]]
LitFloat(k) == [t |-> "Literal", lit |-> [t |-> "Float", v |-> k]]
LitString(x) == [t |-> "Literal", lit |-> [t |-> "String", v |-> x]]
LitBool(b) == [t |-> "Literal", lit |-> [t |-> "Bool", v |-> b]]
Identifier(n) == [t |-> "Identifier", name |-> n]
Binary(l, op, r) == [t |-> "Binary", l |-> l, op |-> op, r |-> r]
Unary(op, x) == [t |-> "Unary", op |-> op, x |-> x]
Call(c, args) == [t |-> "Call", callee |-> c, args |-> args]
Member(o, f) == [t |-> "Member", obj |-> o, name |-> f]
Index(a, i) == [t |-> "Index", obj |-> a, index |-> i]
Assign(target, v) == [t |-> "Assign", target |-> target, value |-> v]
StructLitE(n, fs) == [t |-> "StructLit", name |-> n, fields |-> fs]
ArrayLit(es) == [t |-> "ArrayLit", elems |-> es]
Match(x, arms) == [t |-> "Match", scrutinee |-> x, arms |-> arms]
CompoundAssign(target, op, v) == [t |-> "CompoundAssign", target |-> target, op |-> op, value |-> v]
PreIncrement(x) == [t |-> "PreIncrement", x |-> x]
PreDecrement(x) == [t |-> "PreDecrement", x |-> x]
PostIncrement(x) == [t |-> "PostIncrement", x |-> x]
PostDecrement(x) == [t |-> "PostDecrement", x |-> x]
NullCoalesce(l, r) == [t |-> "NullCoalesce", l |-> l, r |-> r]
OptionalChain(o, f) == [t |-> "OptionalChain", obj |-> o, name |-> f]
NilE == [t |-> "Nil"]

MatchArm(pat, body) == [pattern |-> pat, body |-> body]
PatLiteral(lit) == [t |-> "Literal", lit |-> lit]
PatIdentifier(n) == [t |-> "Identifier", name |-> n]
PatWildcard == [t |-> "Wildcard"]

Block(stmts) == [statements |-> stmts]
LetS(n, mutable, ty, init) == [t |-> "Let", name |-> n, mutable |-> mutable, ty |-> ty, init |-> init]
ExprS(e) == [t |-> "Expr", e |-> e]
ReturnS(v) == [t |-> "Return", value |-> v]
IfS(c, th, el) == [t |-> "If", condition |-> c, then_block |-> th, else_block |-> el]
WhileS(c, b) == [t |-> "While", condition |-> c, body |-> b]
ForS(v, it, b) == [t |-> "For", var |-> v, iterable |-> it, body |-> b]
BlockS(b) == [t |-> "Block", b |-> b]
GuardS(c, el) == [t |-> "Guard", condition |-> c, else_block |-> el]
DeferS(b) == [t |-> "Defer", body |-> b]
TryCatchS(tb, cv, cb) == [t |-> "TryCatch", try_block |-> tb, catch_var |-> cv, catch_block |-> cb]
ThrowS(v) == [t |-> "Throw", value |-> v]

Param(n, ty) == [name |-> n, ty |-> ty]
Field(n, ty) == [name |-> n, ty |-> ty]
FnDecl(n, params, ret, body) ==
  [t |-> "Function", name |-> n, params |-> params, return_type |-> ret, body |-> body]
StructDecl(n, fields) == [t |-> "Struct", name |-> n, fields |-> fields]
ImportDecl(path) == [t |-> "Import", path |-> path]
ExternDecl(n, params, ret) == [t |-> "Extern", name |-> n, params |-> params, return_type |-> ret]
Program(decls) == [declarations |-> decls]

TypeT(tag) == [t |-> tag]
TypeNamed(n) == [t |-> "Named", name |-> n]
TypeArray(inner) == [t |-> "Array", inner |-> inner]

(***************************************************************************)
(* The parser (parser/mod.rs).  A parsing function takes the cursor        *)
(* (Parser.current), reads ptokens, and returns Ok with the node and the   *)
(* new cursor, or the ParseError.                                          *)
(***************************************************************************)
\* Let([x \in {e} |-> body]) is body with x naming the value of e
Let(f) == f[CHOOSE x \in DOMAIN f : TRUE]

POk(v, cur) == [ok |-> TRUE, v |-> v, cur |-> cur]
ParseError_new(message, span) == [ok |-> FALSE, message |-> message, span |-> span]

display(e) ==
  "error[" \o ToString(e.span.line) \o ":" \o ToString(e.span.column) \o "]: " \o e.message

Parser_peek(cur) == IF cur < Len(ptokens) THEN ptokens[cur + 1] ELSE ptokens[Len(ptokens)]
peek_kind(cur) == Parser_peek(cur).kind
is_at_end(cur) == peek_kind(cur).tag = "Eof"
Parser_advance(cur) == IF ~is_at_end(cur) THEN cur + 1 ELSE cur
check(cur, tag) == peek_kind(cur).tag = tag

\* format!("{}, found {:?}", msg, self.peek_kind()), with the kind printed as its tag
Found(msg, cur) == ParseError_new(msg \o ", found " \o peek_kind(cur).tag, Parser_peek(cur).span)

consume(cur, tag, msg) ==
  IF check(cur, tag) THEN POk(Parser_peek(cur), Parser_advance(cur)) ELSE Found(msg, cur)

match_token(cur, tags) ==
  IF peek_kind(cur).tag \in tags THEN [m |-> TRUE, cur |-> Parser_advance(cur)]
  ELSE [m |-> FALSE, cur |-> cur]

\* self.tokens.get(self.current - 1).map(|t| &t.kind), read after a successful match_token
previous_kind(cur) == ptokens[cur].kind

parse_identifier(cur) ==
  IF check(cur, "Ident") THEN POk(peek_kind(cur).s, Parser_advance(cur))
  ELSE Found("expected identifier", cur)

RECURSIVE parse_type(_)
parse_type(cur) ==
  LET k == peek_kind(cur) IN
  CASE k.tag = "Int" -> POk(TypeT("Int"), Parser_advance(cur))
    [] k.tag = "Float" -> POk(TypeT("Float"), Parser_advance(cur))
    [] k.tag = "String" -> POk(TypeT("String"), Parser_advance(cur))
    [] k.tag = "Bool" -> POk(TypeT("Bool"), Parser_advance(cur))
    [] k.tag = "Void" -> POk(TypeT("Void"), Parser_advance(cur))
    [] k.tag = "Ident" -> POk(TypeNamed(k.s), Parser_advance(cur))
    [] k.tag = "LBracket" ->
         Let([inner \in {parse_type(Parser_advance(cur))} |->
           IF ~inner.ok THEN inner ELSE
         Let([c \in {consume(inner.cur, "RBracket", "expected ']'")} |->
           IF ~c.ok THEN c ELSE POk(TypeArray(inner.v), c.cur) ]) ])
    [] OTHER -> Found("expected type", cur)

parse_param(cur) ==
  Let([n \in {parse_identifier(cur)} |->
    IF ~n.ok THEN n ELSE
  Let([c \in {consume(n.cur, "Colon", "expected ':' after parameter name")} |->
    IF ~c.ok THEN c ELSE
  Let([ty \in {parse_type(c.cur)} |->
    IF ~ty.ok THEN ty ELSE POk(Param(n.v, ty.v), ty.cur) ]) ]) ])

RECURSIVE param_list_loop(_, _)
param_list_loop(params, cur) ==
  Let([p \in {parse_param(cur)} |->
    IF ~p.ok THEN p ELSE
  Let([m \in {match_token(p.cur, {"Comma"})} |->
    IF m.m THEN param_list_loop(Append(params, p.v), m.cur)
    ELSE POk(Append(params, p.v), m.cur) ]) ])

parse_param_list(cur) ==
  IF ~check(cur, "RParen") THEN param_list_loop(<<>>, cur) ELSE POk(<<>>, cur)

parse_field(cur) ==
  Let([n \in {parse_identifier(cur)} |->
    IF ~n.ok THEN n ELSE
  Let([c \in {consume(n.cur, "Colon", "expected ':' after field name")} |->
    IF ~c.ok THEN c ELSE
  Let([ty \in {parse_type(c.cur)} |->
    IF ~ty.ok THEN ty ELSE POk(Field(n.v, ty.v), ty.cur) ]) ]) ])

RECURSIVE struct_fields_loop(_, _)
struct_fields_loop(fields, cur) ==
  IF ~check(cur, "RBrace") /\ ~is_at_end(cur)
  THEN Let([f \in {parse_field(cur)} |->
         IF ~f.ok THEN f ELSE
       Let([m \in {match_token(f.cur, {"Comma"})} |->
         IF m.m THEN struct_fields_loop(Append(fields, f.v), m.cur)
         ELSE POk(Append(fields, f.v), m.cur) ]) ])
  ELSE POk(fields, cur)

parse_struct_decl(cur) ==
  Let([s \in {consume(cur, "Struct", "expected 'struct'")} |->
    IF ~s.ok THEN s ELSE
  Let([n \in {parse_identifier(s.cur)} |->
    IF ~n.ok THEN n ELSE
  Let([lb \in {consume(n.cur, "LBrace", "expected '{'")} |->
    IF ~lb.ok THEN lb ELSE
  Let([fs \in {struct_fields_loop(<<>>, lb.cur)} |->
    IF ~fs.ok THEN fs ELSE
  Let([rb \in {consume(fs.cur, "RBrace", "expected '}'")} |->
    IF ~rb.ok THEN rb ELSE POk(StructDecl(n.v, fs.v), rb.cur) ]) ]) ]) ]) ])

RECURSIVE import_path_loop(_, _)
import_path_loop(path, cur) ==
  Let([m \in {match_token(cur, {"Colon"})} |->
    IF ~m.m THEN POk(path, cur) ELSE
  Let([c \in {consume(m.cur, "Colon", "expected '::'")} |->
    IF ~c.ok THEN c ELSE
  Let([n \in {parse_identifier(c.cur)} |->
    IF ~n.ok THEN n ELSE import_path_loop(Append(path, n.v), n.cur) ]) ]) ])

parse_import_decl(cur) ==
  Let([i \in {consume(cur, "Import", "expected 'import'")} |->
    IF ~i.ok THEN i ELSE
  Let([n \in {parse_identifier(i.cur)} |->
    IF ~n.ok THEN n ELSE
  Let([path \in {import_path_loop(<<n.v>>, n.cur)} |->
    IF ~path.ok THEN path ELSE
  Let([sc \in {consume(path.cur, "Semicolon", "expected ';' after import")} |->
    IF ~sc.ok THEN sc ELSE POk(ImportDecl(path.v), sc.cur) ]) ]) ]) ])

\* `if self.match_token(&[kind]) { Some(self.parse_type()?) } else { None }`
optional_type(cur, tag) ==
  Let([m \in {match_token(cur, {tag})} |->
    IF ~m.m THEN POk(NoneV, cur) ELSE
  Let([ty \in {parse_type(m.cur)} |->
    IF ~ty.ok THEN ty ELSE POk(Some(ty.v), ty.cur) ]) ])

parse_extern_decl(cur) ==
  Let([e \in {consume(cur, "Extern", "expected 'extern'")} |->
    IF ~e.ok THEN e ELSE
  Let([f \in {consume(e.cur, "Fn", "expected 'fn' after 'extern'")} |->
    IF ~f.ok THEN f ELSE
  Let([n \in {parse_identifier(f.cur)} |->
    IF ~n.ok THEN n ELSE
  Let([lp \in {consume(n.cur, "LParen", "expected '('")} |->
    IF ~lp.ok THEN lp ELSE
  Let([ps \in {parse_param_list(lp.cur)} |->
    IF ~ps.ok THEN ps ELSE
  Let([rp \in {consume(ps.cur, "RParen", "expected ')'")} |->
    IF ~rp.ok THEN rp ELSE
  Let([rt \in {optional_type(rp.cur, "Arrow")} |->
    IF ~rt.ok THEN rt ELSE
  Let([sc \in {consume(rt.cur, "Semicolon", "expected ';'")} |->
    IF ~sc.ok THEN sc ELSE POk(ExternDecl(n.v, ps.v, rt.v), sc.cur) ]) ]) ]) ]) ]) ]) ]) ])

RECURSIVE parse_block(_), block_loop(_, _), parse_statement(_), parse_expression(_),
          parse_assignment(_), assignment_value(_, _), parse_binary(_, _), cascade(_, _, _), binary_loop(_, _, _), parse_unary(_),
          parse_call(_), call_loop(_, _), arg_list_loop(_, _), parse_primary(_),
          struct_lit_loop(_, _), array_lit_loop(_, _), match_arms_loop(_, _),
          parse_match_arm(_)

\* expression parsing (the cascade parse_nullish_coalesce .. parse_factor): the
\* token kinds each level's loop matches, loosest level first
CascadeLevels ==
  << [fn |-> "parse_nullish_coalesce", ops |-> {"QuestionQuestion"}],
     [fn |-> "parse_or", ops |-> {"Or"}],
     [fn |-> "parse_and", ops |-> {"And"}],
     [fn |-> "parse_bitwise_or", ops |-> {"BitwiseOr"}],
     [fn |-> "parse_bitwise_xor", ops |-> {"BitwiseXor"}],
     [fn |-> "parse_bitwise_and", ops |-> {"BitwiseAnd"}],
     [fn |-> "parse_equality", ops |-> {"EqEq", "BangEq"}],
     [fn |-> "parse_comparison", ops |-> {"Lt", "Gt", "LtEq", "GtEq"}],
     [fn |-> "parse_shift", ops |-> {"ShiftLeft", "ShiftRight"}],
     [fn |-> "parse_term", ops |-> {"Plus", "Minus"}],
     [fn |-> "parse_factor", ops |-> {"Star", "Slash", "Percent"}] >>

\* the same cascade with parse_term and parse_factor matching each other's operators
LevelOps_term_factor_swapped(level) ==
  CASE CascadeLevels[level].fn = "parse_term" -> {"Star", "Slash", "Percent"}
    [] CascadeLevels[level].fn = "parse_factor" -> {"Plus", "Minus"}
    [] OTHER -> CascadeLevels[level].ops

LevelOps(level) == CascadeLevels[level].ops

\* the BinOp each level's `match self.tokens.get(self.current - 1)` selects
BinOpOf(tag) ==
  CASE tag = "Or" -> "Or" [] tag = "And" -> "And"
    [] tag = "BitwiseOr" -> "BitwiseOr" [] tag = "BitwiseXor" -> "BitwiseXor"
    [] tag = "BitwiseAnd" -> "BitwiseAnd"
    [] tag = "EqEq" -> "Eq" [] tag = "BangEq" -> "Ne"
    [] tag = "Lt" -> "Lt" [] tag = "Gt" -> "Gt" [] tag = "LtEq" -> "Le" [] tag = "GtEq" -> "Ge"
    [] tag = "ShiftLeft" -> "ShiftLeft" [] tag = "ShiftRight" -> "ShiftRight"
    [] tag = "Plus" -> "Add" [] tag = "Minus" -> "Sub"
    [] tag = "Star" -> "Mul" [] tag = "Slash" -> "Div" [] tag = "Percent" -> "Mod"

CompoundOpOf(tag) ==
  CASE tag = "PlusEq" -> "AddEq" [] tag = "MinusEq" -> "SubEq" [] tag = "StarEq" -> "MulEq"
    [] tag = "SlashEq" -> "DivEq" [] tag = "PercentEq" -> "ModEq"

UnaryOpOf(tag) ==
  CASE tag = "Minus" -> "Neg" [] tag = "Bang" -> "Not" [] tag = "BitwiseNot" -> "BitwiseNot"

\* The levels level..parse_factor of the cascade: `let mut left = next()?; while
\* match_token(ops) { .. }`.  Each level begins by calling the next one, so the
\* first thing parsed is the operand of parse_unary; then the loop of each level
\* runs on what the tighter levels returned, parse_factor's loop first.
parse_binary(level, cur) == cascade(Len(CascadeLevels), level, parse_unary(cur))

cascade(from, level, left) ==
  IF from < level \/ ~left.ok THEN left
  ELSE Let([l \in {binary_loop(from, left.v, left.cur)} |-> cascade(from - 1, level, l) ])

binary_loop(level, left, cur) ==
  Let([m \in {match_token(cur, LevelOps(level))} |->
    IF ~m.m THEN POk(left, cur) ELSE
  Let([right \in {parse_binary(level + 1, m.cur)} |->
    IF ~right.ok THEN right
    ELSE binary_loop(level,
                     IF previous_kind(m.cur).tag = "QuestionQuestion"
                     THEN NullCoalesce(left, right.v)
                     ELSE Binary(left, BinOpOf(previous_kind(m.cur).tag), right.v),
                     right.cur) ]) ])

parse_nullish_coalesce(cur) == parse_binary(1, cur)

\* the two `let value = self.parse_assignment()?` of parse_assignment
assignment_value(target, cur) ==
  Let([value \in {parse_assignment(cur)} |->
    IF ~value.ok THEN value
    ELSE IF previous_kind(cur).tag = "Eq" THEN POk(Assign(target, value.v), value.cur)
    ELSE POk(CompoundAssign(target, CompoundOpOf(previous_kind(cur).tag), value.v), value.cur) ])

\* match_token(&[Eq]), then match_token(&[PlusEq, ..]), at the same token
parse_assignment(cur) ==
  Let([e \in {parse_nullish_coalesce(cur)} |->
    IF ~e.ok THEN e ELSE
  Let([m \in {match_token(e.cur, {"Eq", "PlusEq", "MinusEq", "StarEq", "SlashEq", "PercentEq"})} |->
    IF m.m THEN assignment_value(e.v, m.cur) ELSE e ]) ])

parse_expression(cur) == parse_assignment(cur)

RECURSIVE postfix_loop_keeps_cursor(_, _)
RECURSIVE postfix_loop(_, _)
\* the loop with the bug "`++` is recorded and left in the stream"
postfix_loop_keeps_cursor(e, cur) ==
  IF check(cur, "PlusPlus") THEN POk(PostIncrement(e), cur)
  ELSE IF check(cur, "MinusMinus") THEN postfix_loop_keeps_cursor(PostDecrement(e), Parser_advance(cur))
  ELSE POk(e, cur)

postfix_loop(e, cur) ==
  IF check(cur, "PlusPlus") THEN postfix_loop(PostIncrement(e), Parser_advance(cur))
  ELSE IF check(cur, "MinusMinus") THEN postfix_loop(PostDecrement(e), Parser_advance(cur))
  ELSE POk(e, cur)

parse_postfix(cur) ==
  Let([e \in {parse_call(cur)} |-> IF ~e.ok THEN e ELSE postfix_loop(e.v, e.cur) ])

parse_unary(cur) ==
  IF peek_kind(cur).tag \in {"PlusPlus", "MinusMinus", "Minus", "Bang", "BitwiseNot"}
  THEN Let([x \in {parse_unary(Parser_advance(cur))} |->
         IF ~x.ok THEN x
         ELSE CASE check(cur, "PlusPlus") -> POk(PreIncrement(x.v), x.cur)
                [] check(cur, "MinusMinus") -> POk(PreDecrement(x.v), x.cur)
                [] OTHER -> POk(Unary(UnaryOpOf(peek_kind(cur).tag), x.v), x.cur) ])
  ELSE parse_postfix(cur)

arg_list_loop(args, cur) ==
  Let([a \in {parse_expression(cur)} |->
    IF ~a.ok THEN a ELSE
  Let([m \in {match_token(a.cur, {"Comma"})} |->
    IF m.m THEN arg_list_loop(Append(args, a.v), m.cur)
    ELSE POk(Append(args, a.v), m.cur) ]) ])

parse_arg_list(cur) ==
  IF ~check(cur, "RParen") THEN arg_list_loop(<<>>, cur) ELSE POk(<<>>, cur)

call_loop(e, cur) ==
  CASE check(cur, "LParen") ->
         Let([args \in {parse_arg_list(Parser_advance(cur))} |->
           IF ~args.ok THEN args ELSE
         Let([rp \in {consume(args.cur, "RParen", "expected ')' after arguments")} |->
           IF ~rp.ok THEN rp ELSE call_loop(Call(e, args.v), rp.cur) ]) ])
    [] check(cur, "Dot") \/ check(cur, "QuestionDot") ->
         Let([n \in {parse_identifier(Parser_advance(cur))} |->
           IF ~n.ok THEN n
           ELSE call_loop(IF check(cur, "Dot") THEN Member(e, n.v) ELSE OptionalChain(e, n.v),
                          n.cur) ])
    [] check(cur, "LBracket") ->
         Let([i \in {parse_expression(Parser_advance(cur))} |->
           IF ~i.ok THEN i ELSE
         Let([rb \in {consume(i.cur, "RBracket", "expected ']'")} |->
           IF ~rb.ok THEN rb ELSE call_loop(Index(e, i.v), rb.cur) ]) ])
    [] OTHER -> POk(e, cur)

parse_call(cur) ==
  Let([e \in {parse_primary(cur)} |-> IF ~e.ok THEN e ELSE call_loop(e.v, e.cur) ])

struct_lit_loop(fields, cur) ==
  IF check(cur, "RBrace") \/ is_at_end(cur) THEN POk(fields, cur) ELSE
  Let([n \in {parse_identifier(cur)} |->
    IF ~n.ok THEN n ELSE
  Let([c \in {consume(n.cur, "Colon", "expected ':'")} |->
    IF ~c.ok THEN c ELSE
  Let([value \in {parse_expression(c.cur)} |->
    IF ~value.ok THEN value ELSE
  Let([m \in {match_token(value.cur, {"Comma"})} |->
    IF m.m THEN struct_lit_loop(Append(fields, <<n.v, value.v>>), m.cur)
    ELSE POk(Append(fields, <<n.v, value.v>>), m.cur) ]) ]) ]) ])

array_lit_loop(elements, cur) ==
  IF check(cur, "RBracket") \/ is_at_end(cur) THEN POk(elements, cur) ELSE
  Let([e \in {parse_expression(cur)} |->
    IF ~e.ok THEN e ELSE
  Let([m \in {match_token(e.cur, {"Comma"})} |->
    IF m.m THEN array_lit_loop(Append(elements, e.v), m.cur)
    ELSE POk(Append(elements, e.v), m.cur) ]) ])

match_arms_loop(arms, cur) ==
  IF check(cur, "RBrace") \/ is_at_end(cur) THEN POk(arms, cur) ELSE
  Let([arm \in {parse_match_arm(cur)} |->
    IF ~arm.ok THEN arm
    ELSE match_arms_loop(Append(arms, arm.v), match_token(arm.cur, {"Comma"}).cur) ])

parse_primary(cur) ==
  LET token == Parser_peek(cur)
      next == Parser_advance(cur) IN
  CASE token.kind.tag = "IntLit" -> POk(LitInt(token.kind.n), next)
    [] token.kind.tag = "FloatLit" -> POk(LitFloat(token.kind), next)
    [] token.kind.tag = "StringLit" -> POk(LitString(token.kind.s), next)
    [] token.kind.tag = "True" -> POk(LitBool(TRUE), next)
    [] token.kind.tag = "False" -> POk(LitBool(FALSE), next)
    [] token.kind.tag = "Ident" ->
         IF ~check(next, "LBrace") THEN POk(Identifier(token.kind.s), next) ELSE
         Let([fields \in {struct_lit_loop(<<>>, Parser_advance(next))} |->
           IF ~fields.ok THEN fields ELSE
         Let([rb \in {consume(fields.cur, "RBrace", "expected '}'")} |->
           IF ~rb.ok THEN rb ELSE POk(StructLitE(token.kind.s, fields.v), rb.cur) ]) ])
    [] token.kind.tag = "LParen" ->
         Let([e \in {parse_expression(next)} |->
           IF ~e.ok THEN e ELSE
         Let([rp \in {consume(e.cur, "RParen", "expected ')'")} |->
           IF ~rp.ok THEN rp ELSE POk(e.v, rp.cur) ]) ])
    [] token.kind.tag = "LBracket" ->
         Let([elements \in {array_lit_loop(<<>>, next)} |->
           IF ~elements.ok THEN elements ELSE
         Let([rb \in {consume(elements.cur, "RBracket", "expected ']'")} |->
           IF ~rb.ok THEN rb ELSE POk(ArrayLit(elements.v), rb.cur) ]) ])
    [] token.kind.tag = "Nil" -> POk(NilE, next)
    [] token.kind.tag = "Match" ->
         Let([scrutinee \in {parse_expression(next)} |->
           IF ~scrutinee.ok THEN scrutinee ELSE
         Let([lb \in {consume(scrutinee.cur, "LBrace", "expected '{' after match expression")} |->
           IF ~lb.ok THEN lb ELSE
         Let([arms \in {match_arms_loop(<<>>, lb.cur)} |->
           IF ~arms.ok THEN arms ELSE
         Let([rb \in {consume(arms.cur, "RBrace", "expected '}' after match arms")} |->
           IF ~rb.ok THEN rb ELSE POk(Match(scrutinee.v, arms.v), rb.cur) ]) ]) ]) ])
    [] OTHER -> Found("expected expression", cur)

parse_pattern(cur) ==
  LET token == Parser_peek(cur)
      next == Parser_advance(cur) IN
  CASE token.kind.tag = "IntLit" -> POk(PatLiteral([t |-> "Int", v |-> token.kind.n]), next)
    [] token.kind.tag = "StringLit" -> POk(PatLiteral([t |-> "String", v |-> token.kind.s]), next)
    [] token.kind.tag = "True" -> POk(PatLiteral([t |-> "Bool", v |-> TRUE]), next)
    [] token.kind.tag = "False" -> POk(PatLiteral([t |-> "Bool", v |-> FALSE]), next)
    [] token.kind.tag = "Ident" ->
         IF token.kind.s = "_" THEN POk(PatWildcard, next)
         ELSE POk(PatIdentifier(token.kind.s), next)
    [] OTHER -> Found("expected pattern", cur)

\* the body of an arm: a block (its last statement, if an expression statement, is
\* the value; otherwise Nil) or a single expression
arm_body(cur) ==
  IF ~check(cur, "LBrace") THEN parse_expression(cur) ELSE
  Let([block \in {parse_block(cur)} |->
    IF ~block.ok THEN block
    ELSE IF block.v.statements # <<>> /\ block.v.statements[Len(block.v.statements)].t = "Expr"
         THEN POk(block.v.statements[Len(block.v.statements)].e, block.cur)
         ELSE POk(NilE, block.cur) ])

parse_match_arm(cur) ==
  Let([pattern \in {parse_pattern(cur)} |->
    IF ~pattern.ok THEN pattern ELSE
  Let([fa \in {consume(pattern.cur, "FatArrow", "expected '=>' after pattern")} |->
    IF ~fa.ok THEN fa ELSE
  Let([body \in {arm_body(fa.cur)} |->
    IF ~body.ok THEN body ELSE POk(MatchArm(pattern.v, body.v), body.cur) ]) ]) ])

block_loop(statements, cur) ==
  IF check(cur, "RBrace") \/ is_at_end(cur) THEN POk(statements, cur) ELSE
  Let([s \in {parse_statement(cur)} |->
    IF ~s.ok THEN s ELSE block_loop(Append(statements, s.v), s.cur) ])

parse_block(cur) ==
  Let([lb \in {consume(cur, "LBrace", "expected '{'")} |->
    IF ~lb.ok THEN lb ELSE
  Let([statements \in {block_loop(<<>>, lb.cur)} |->
    IF ~statements.ok THEN statements ELSE
  Let([rb \in {consume(statements.cur, "RBrace", "expected '}'")} |->
    IF ~rb.ok THEN rb ELSE POk(Block(statements.v), rb.cur) ]) ]) ])

\* `Some(self.parse_expression()?)`
some_expression(cur) ==
  Let([e \in {parse_expression(cur)} |-> IF ~e.ok THEN e ELSE POk(Some(e.v), e.cur) ])

parse_let_stmt(cur) ==
  Let([l \in {consume(cur, "Let", "expected 'let'")} |->
    IF ~l.ok THEN l ELSE
  Let([mutable \in {match_token(l.cur, {"Mut"})} |->
  Let([n \in {parse_identifier(mutable.cur)} |->
    IF ~n.ok THEN n ELSE
  Let([ty \in {optional_type(n.cur, "Colon")} |->
    IF ~ty.ok THEN ty ELSE
  Let([eq \in {match_token(ty.cur, {"Eq"})} |->
  Let([init \in {IF eq.m THEN some_expression(eq.cur) ELSE POk(NoneV, eq.cur)} |->
    IF ~init.ok THEN init ELSE
  Let([sc \in {consume(init.cur, "Semicolon", "expected ';' after variable declaration")} |->
    IF ~sc.ok THEN sc ELSE POk(LetS(n.v, mutable.m, ty.v, init.v), sc.cur) ]) ]) ]) ]) ]) ]) ])

parse_return_stmt(cur) ==
  Let([r \in {consume(cur, "Return", "expected 'return'")} |->
    IF ~r.ok THEN r ELSE
  Let([value \in {IF ~check(r.cur, "Semicolon") THEN some_expression(r.cur)
                  ELSE POk(NoneV, r.cur)} |->
    IF ~value.ok THEN value ELSE
  Let([sc \in {consume(value.cur, "Semicolon", "expected ';' after return")} |->
    IF ~sc.ok THEN sc ELSE POk(ReturnS(value.v), sc.cur) ]) ]) ])

\* `if self.match_token(&[Else]) { Some(self.parse_block()?) } else { None }`
optional_else(cur) ==
  Let([m \in {match_token(cur, {"Else"})} |->
    IF ~m.m THEN POk(NoneV, cur) ELSE
  Let([b \in {parse_block(m.cur)} |->
    IF ~b.ok THEN b ELSE POk(Some(b.v), b.cur) ]) ])

parse_if_stmt(cur) ==
  Let([i \in {consume(cur, "If", "expected 'if'")} |->
    IF ~i.ok THEN i ELSE
  Let([condition \in {parse_expression(i.cur)} |->
    IF ~condition.ok THEN condition ELSE
  Let([then_block \in {parse_block(condition.cur)} |->
    IF ~then_block.ok THEN then_block ELSE
  Let([else_block \in {optional_else(then_block.cur)} |->
    IF ~else_block.ok THEN else_block
    ELSE POk(IfS(condition.v, then_block.v, else_block.v), else_block.cur) ]) ]) ]) ])

parse_while_stmt(cur) ==
  Let([w \in {consume(cur, "While", "expected 'while'")} |->
    IF ~w.ok THEN w ELSE
  Let([condition \in {parse_expression(w.cur)} |->
    IF ~condition.ok THEN condition ELSE
  Let([body \in {parse_block(condition.cur)} |->
    IF ~body.ok THEN body ELSE POk(WhileS(condition.v, body.v), body.cur) ]) ]) ])

parse_for_stmt(cur) ==
  Let([f \in {consume(cur, "For", "expected 'for'")} |->
    IF ~f.ok THEN f ELSE
  Let([var \in {parse_identifier(f.cur)} |->
    IF ~var.ok THEN var ELSE
  Let([in \in {consume(var.cur, "In", "expected 'in'")} |->
    IF ~in.ok THEN in ELSE
  Let([iterable \in {parse_expression(in.cur)} |->
    IF ~iterable.ok THEN iterable ELSE
  Let([body \in {parse_block(iterable.cur)} |->
    IF ~body.ok THEN body ELSE POk(ForS(var.v, iterable.v, body.v), body.cur) ]) ]) ]) ]) ])

parse_expr_stmt(cur) ==
  Let([e \in {parse_expression(cur)} |->
    IF ~e.ok THEN e ELSE
  Let([sc \in {consume(e.cur, "Semicolon", "expected ';' after expression")} |->
    IF ~sc.ok THEN sc ELSE POk(ExprS(e.v), sc.cur) ]) ])

parse_guard_stmt(cur) ==
  Let([g \in {consume(cur, "Guard", "expected 'guard'")} |->
    IF ~g.ok THEN g ELSE
  Let([condition \in {parse_expression(g.cur)} |->
    IF ~condition.ok THEN condition ELSE
  Let([el \in {consume(condition.cur, "Else", "expected 'else' after guard condition")} |->
    IF ~el.ok THEN el ELSE
  Let([else_block \in {parse_block(el.cur)} |->
    IF ~else_block.ok THEN else_block
    ELSE POk(GuardS(condition.v, else_block.v), else_block.cur) ]) ]) ]) ])

parse_defer_stmt(cur) ==
  Let([d \in {consume(cur, "Defer", "expected 'defer'")} |->
    IF ~d.ok THEN d ELSE
  Let([body \in {parse_block(d.cur)} |->
    IF ~body.ok THEN body ELSE POk(DeferS(body.v), body.cur) ]) ])

parse_try_catch_stmt(cur) ==
  Let([tr \in {consume(cur, "Try", "expected 'try'")} |->
    IF ~tr.ok THEN tr ELSE
  Let([try_block \in {parse_block(tr.cur)} |->
    IF ~try_block.ok THEN try_block ELSE
  Let([c \in {consume(try_block.cur, "Catch", "expected 'catch'")} |->
    IF ~c.ok THEN c ELSE
  Let([catch_var \in {IF check(c.cur, "Ident")
                      THEN POk(Some(peek_kind(c.cur).s), Parser_advance(c.cur))
                      ELSE POk(NoneV, c.cur)} |->
  Let([catch_block \in {parse_block(catch_var.cur)} |->
    IF ~catch_block.ok THEN catch_block
    ELSE POk(TryCatchS(try_block.v, catch_var.v, catch_block.v), catch_block.cur) ]) ]) ]) ]) ])

parse_throw_stmt(cur) ==
  Let([th \in {consume(cur, "Throw", "expected 'throw'")} |->
    IF ~th.ok THEN th ELSE
  Let([value \in {parse_expression(th.cur)} |->
    IF ~value.ok THEN value ELSE
  Let([sc \in {consume(value.cur, "Semicolon", "expected ';' after throw")} |->
    IF ~sc.ok THEN sc ELSE POk(ThrowS(value.v), sc.cur) ]) ]) ])

\* Ok(Stmt::Block(self.parse_block()?))
block_stmt(cur) ==
  Let([b \in {parse_block(cur)} |-> IF ~b.ok THEN b ELSE POk(BlockS(b.v), b.cur) ])

parse_statement(cur) ==
  LET tag == peek_kind(cur).tag IN
  CASE tag = "Let" -> parse_let_stmt(cur)
    [] tag = "Return" -> parse_return_stmt(cur)
    [] tag = "If" -> parse_if_stmt(cur)
    [] tag = "While" -> parse_while_stmt(cur)
    [] tag = "For" -> parse_for_stmt(cur)
    [] tag = "LBrace" -> block_stmt(cur)
    [] tag = "Guard" -> parse_guard_stmt(cur)
    [] tag = "Defer" -> parse_defer_stmt(cur)
    [] tag = "Try" -> parse_try_catch_stmt(cur)
    [] tag = "Throw" -> parse_throw_stmt(cur)
    [] OTHER -> parse_expr_stmt(cur)

parse_fn_decl(cur) ==
  Let([f \in {consume(cur, "Fn", "expected 'fn'")} |->
    IF ~f.ok THEN f ELSE
  Let([n \in {parse_identifier(f.cur)} |->
    IF ~n.ok THEN n ELSE
  Let([lp \in {consume(n.cur, "LParen", "expected '(' after function name")} |->
    IF ~lp.ok THEN lp ELSE
  Let([params \in {parse_param_list(lp.cur)} |->
    IF ~params.ok THEN params ELSE
  Let([rp \in {consume(params.cur, "RParen", "expected ')' after parameters")} |->
    IF ~rp.ok THEN rp ELSE
  Let([return_type \in {optional_type(rp.cur, "Arrow")} |->
    IF ~return_type.ok THEN return_type ELSE
  Let([body \in {parse_block(return_type.cur)} |->
    IF ~body.ok THEN body
    ELSE POk(FnDecl(n.v, params.v, return_type.v, body.v), body.cur) ]) ]) ]) ]) ]) ]) ])

parse_declaration(cur) ==
  LET tag == peek_kind(cur).tag IN
  CASE tag = "Fn" -> parse_fn_decl(cur)
    [] tag = "Struct" -> parse_struct_decl(cur)
    [] tag = "Import" -> parse_import_decl(cur)
    [] tag = "Extern" -> parse_extern_decl(cur)
    [] OTHER -> Found("expected declaration", cur)

\* BinOp::precedence (ast.rs): higher binds tighter
precedence(op) ==
  CASE op = "Or" -> 1
    [] op = "And" -> 2
    [] op = "BitwiseOr" -> 3
    [] op = "BitwiseXor" -> 4
    [] op = "BitwiseAnd" -> 5
    [] op \in {"Eq", "Ne"} -> 6
    [] op \in {"Lt", "Gt", "Le", "Ge"} -> 7
    [] op \in {"ShiftLeft", "ShiftRight"} -> 8
    [] op \in {"Add", "Sub"} -> 9
    [] op \in {"Mul", "Div", "Mod"} -> 10

(***************************************************************************)
(* The token lists given to parse.  A list is written as its lexemes; the  *)
(* kind of a lexeme is the one next_token gives it, its span puts the      *)
(* i-th token on line 1 at column i, and the list ends with the Eof token. *)
(***************************************************************************)
SymbolKind(s) ==
  CASE s = "(" -> Tk("LParen") [] s = ")" -> Tk("RParen") [] s = "{" -> Tk("LBrace")
    [] s = "}" -> Tk("RBrace") [] s = "[" -> Tk("LBracket") [] s = "]" -> Tk("RBracket")
    [] s = "," -> Tk("Comma") [] s = ";" -> Tk("Semicolon") [] s = ":" -> Tk("Colon")
    [] s = "." -> Tk("Dot") [] s = "->" -> Tk("Arrow") [] s = "=>" -> Tk("FatArrow")
    [] s = "=" -> Tk("Eq") [] s = "??" -> Tk("QuestionQuestion") [] s = "?." -> Tk("QuestionDot")
    [] s = "||" -> Tk("Or") [] s = "&&" -> Tk("And") [] s = "|" -> Tk("BitwiseOr")
    [] s = "^" -> Tk("BitwiseXor") [] s = "&" -> Tk("BitwiseAnd") [] s = "~" -> Tk("BitwiseNot")
    [] s = "==" -> Tk("EqEq") [] s = "!=" -> Tk("BangEq") [] s = "!" -> Tk("Bang")
    [] s = "<" -> Tk("Lt") [] s = ">" -> Tk("Gt") [] s = "<=" -> Tk("LtEq") [] s = ">=" -> Tk("GtEq")
    [] s = "<<" -> Tk("ShiftLeft") [] s = ">>" -> Tk("ShiftRight")
    [] s = "+" -> Tk("Plus") [] s = "-" -> Tk("Minus") [] s = "*" -> Tk("Star")
    [] s = "/" -> Tk("Slash") [] s = "%" -> Tk("Percent")
    [] s = "++" -> Tk("PlusPlus") [] s = "--" -> Tk("MinusMinus")
    [] s = "+=" -> Tk("PlusEq") [] s = "-=" -> Tk("MinusEq") [] s = "*=" -> Tk("StarEq")
    [] s = "/=" -> Tk("SlashEq") [] s = "%=" -> Tk("PercentEq")
    [] s \in AsciiDigits -> IntLit(DigitVal(s))
    [] OTHER -> keyword_from_str(s)

Tokens(lexemes) ==
  [i \in 1..(Len(lexemes) + 1) |->
     IF i <= Len(lexemes) THEN Token_new(SymbolKind(lexemes[i]), Span_new(1, i, i - 1, i))
     ELSE Token_eof(Len(lexemes))]

RECURSIVE Flatten(_)
Flatten(ss) == IF ss = <<>> THEN <<>> ELSE Head(ss) \o Flatten(Tail(ss))

InFn(body) == <<"fn", "f", "(", ")", "{">> \o body \o <<"}">>

\* `fn f() { a op1 b op2 c; }` for every two operators of the cascade, and `=`
CascadeLexemes ==
  {"??", "||", "&&", "|", "^", "&", "==", "!=", "<", ">", "<=", ">=", "<<", ">>",
   "+", "-", "*", "/", "%"}
ExprInput(op1, op2) == [k |-> "expr", op1 |-> op1, op2 |-> op2]
ExprInputs == {ExprInput(op1, op2) : op1, op2 \in CascadeLexemes \cup {"="}}

\* `fn f() { if e { body } }`, `while e { body }`, `for v in e { body }`: the
\* expressions e with the tree each denotes, and the bodies with their statements
CondExprs ==
  { [lexemes |-> <<"x">>, ast |-> Identifier("x")],
    [lexemes |-> <<"a", ">", "b">>, ast |-> Binary(Identifier("a"), "Gt", Identifier("b"))],
    [lexemes |-> <<"!", "done">>, ast |-> Unary("Not", Identifier("done"))],
    [lexemes |-> <<"1">>, ast |-> LitInt(1)],
    [lexemes |-> <<"true">>, ast |-> LitBool(TRUE)],
    [lexemes |-> <<"a", "<", "1">>, ast |-> Binary(Identifier("a"), "Lt", LitInt(1))],
    [lexemes |-> <<"(", "x", ")">>, ast |-> Identifier("x")],
    [lexemes |-> <<"g", "(", ")">>, ast |-> Call(Identifier("g"), <<>>)],
    [lexemes |-> <<"x", ".", "y">>, ast |-> Member(Identifier("x"), "y")],
    [lexemes |-> <<"a", "[", "0", "]">>, ast |-> Index(Identifier("a"), LitInt(0))],
    [lexemes |-> <<"[", "1", "]">>, ast |-> ArrayLit(<<LitInt(1)>>)] }
Bodies ==
  { [lexemes |-> <<>>, ast |-> Block(<<>>)],
    [lexemes |-> <<"y", ";">>, ast |-> Block(<<ExprS(Identifier("y"))>>)],
    [lexemes |-> <<"return", "1", ";">>, ast |-> Block(<<ReturnS(Some(LitInt(1)))>>)] }
BlockStmt(kw, e, body) ==
  CASE kw = "if" -> [lexemes |-> <<"if">> \o e.lexemes \o <<"{">> \o body.lexemes \o <<"}">>,
                     ast |-> IfS(e.ast, body.ast, NoneV)]
    [] kw = "while" -> [lexemes |-> <<"while">> \o e.lexemes \o <<"{">> \o body.lexemes \o <<"}">>,
                        ast |-> WhileS(e.ast, body.ast)]
    [] kw = "for" -> [lexemes |-> <<"for", "v", "in">> \o e.lexemes \o <<"{">> \o body.lexemes \o <<"}">>,
                      ast |-> ForS("v", e.ast, body.ast)]
BlockStmts == {BlockStmt(kw, e, body) : kw \in {"if", "while", "for"}, e \in CondExprs, body \in Bodies}
BlockStmtInputs == {[k |-> "block", s |-> s] : s \in BlockStmts}

\* programs of at most MaxDecls declarations, each well-formed or with a syntax error
MaxDecls == 2
GoodDecls ==
  { <<"fn", "f", "(", ")", "{", "}">>,
    <<"fn", "m", "(", "x", ":", "int", ",", "y", ":", "[", "T", "]", ")", "->", "int", "{",
      "let", "mut", "z", ":", "int", "=", "x", "+", "1", ";", "z", "+=", "-", "y", "[", "0", "]", ";",
      "return", "z", "++", ";", "}">>,
    <<"fn", "g", "(", ")", "{", "guard", "ok", "else", "{", "throw", "1", ";", "}",
      "defer", "{", "}", "try", "{", "g", "(", "1", ",", "2", ")", ";", "}", "catch", "e", "{", "}", "}">>,
    <<"fn", "p", "(", ")", "{", "return", "P", "{", "x", ":", "1", "}", ";", "}">>,
    <<"fn", "q", "(", ")", "{",
      "match", "(", "x", ")", "{", "1", "=>", "2", ",", "_", "=>", "{", "p", "?.", "q", ";", "}", "}", ";", "}">>,
    <<"struct", "S", "{", "x", ":", "int", ",", "y", ":", "string", "}">>,
    <<"import", "a", ":", ":", "b", ";">>,
    <<"extern", "fn", "h", "(", "x", ":", "int", ")", "->", "void", ";">> }
BadDecls ==
  { <<"let", "x", "=", "1", ";">>,
    <<"fn", "f", "(", "{", "}">>,
    <<"fn", "f", "(", ")", "{", "return", "1", "}">>,
    <<"fn", "f", "(", ")", "{", "x", "=", ";", "}">>,
    <<"struct", "S", "{", "x", "}">>,
    <<"import", "a", ".", "b", ";">>,
    <<"extern", "h", "(", ")", ";">> }
DeclInputs == {[k |-> "decls", ds |-> ds] : ds \in SeqsUpTo(GoodDecls \cup BadDecls, MaxDecls)}

\* `import` p1 sep p2 sep ... `;` for a path of up to MaxPath segments
MaxPath == 3
Separators == {<<".">>, <<":", ":">>}
RECURSIVE Joined(_, _)
Joined(path, sep) ==
  IF Len(path) = 1 THEN path ELSE <<Head(path)>> \o sep \o Joined(Tail(path), sep)
ImportInputs ==
  {[k |-> "import", path |-> path, sep |-> sep] :
     path \in SeqsUpTo({"a", "b", "c"}, MaxPath) \ {<<>>}, sep \in Separators}

Lexemes(input) ==
  CASE input.k = "expr" -> InFn(<<"a", input.op1, "b", input.op2, "c", ";">>)
    [] input.k = "block" -> InFn(input.s.lexemes)
    [] input.k = "decls" -> Flatten(input.ds)
    [] input.k = "import" -> <<"import">> \o Joined(input.path, input.sep) \o <<";">>

(***************************************************************************)
(* parse(tokens): Parser::new, then parse_program's loop one declaration   *)
(* at a time, then parse's match on the result.                            *)
(***************************************************************************)
ParseRunning == [k |-> "Running"]

ParseInit ==
  /\ parseInput \in ExprInputs \cup BlockStmtInputs \cup DeclInputs \cup ImportInputs
  /\ ptokens = Tokens(Lexemes(parseInput))
  /\ current = 0
  /\ declarations = <<>>
  /\ parseResult = ParseRunning
  /\ LexIdle
  /\ InterpIdle
  /\ OpIdle
  /\ CheckIdle
  /\ EnvIdle

\* declarations.push(self.parse_declaration()?) when the declaration parses
ParseDeclaration ==
  /\ parseResult = ParseRunning
  /\ ~is_at_end(current)
  /\ \E d \in {parse_declaration(current)} :
       /\ d.ok
       /\ declarations' = Append(declarations, d.v)
       /\ current' = d.cur
  /\ UNCHANGED <<parseInput, ptokens, parseResult, notParseVars>>

\* the loop ends at Eof: Ok(Program { declarations }), which parse returns
ParseProgramOk ==
  /\ parseResult = ParseRunning
  /\ is_at_end(current)
  /\ parseResult' = [k |-> "Returned", program |-> Program(declarations), stderr |-> <<>>]
  /\ UNCHANGED <<parseInput, ptokens, current, declarations, notParseVars>>

\* the same step of parse, returning what parse_program had collected
ParseProgramErr_partial ==
  /\ parseResult = ParseRunning
  /\ ~is_at_end(current)
  /\ \E d \in {parse_declaration(current)} :
       /\ ~d.ok
       /\ parseResult' = [k |-> "Returned", program |-> Program(declarations),
                          stderr |-> <<display(d)>>]
  /\ UNCHANGED <<parseInput, ptokens, current, declarations, notParseVars>>

\* `?` leaves parse_program with the error; parse prints it and returns the
\* empty Program.  The parser and its vector are dropped: they are left as
\* they were when the failing declaration began.
ParseProgramErr ==
  /\ parseResult = ParseRunning
  /\ ~is_at_end(current)
  /\ \E d \in {parse_declaration(current)} :
       /\ ~d.ok
       /\ parseResult' = [k |-> "Returned", program |-> Program(<<>>),
                          stderr |-> <<display(d)>>]
  /\ UNCHANGED <<parseInput, ptokens, current, declarations, notParseVars>>

ParseNext == ParseDeclaration \/ ParseProgramOk \/ ParseProgramErr

SpecParse == ParseInit /\ [][ParseNext]_vars

(***************************************************************************)
(* Properties of the parser.                                               *)
(***************************************************************************)
ParseReturned == parseResult.k = "Returned"
FnF(stmts) == Program(<<FnDecl("f", <<>>, NoneV, Block(stmts))>>)
HasSyntaxError(ds) == \E i \in 1..Len(ds) : ds[i] \in BadDecls

\* what parse may return: with a syntax error in any declaration, a diagnostic
\* and the empty Program whatever had been parsed before; without one, no
\* diagnostic and one declaration for each one written
ParseResultAsSpecified ==
  ParseReturned =>
    /\ DOMAIN parseResult.program = {"declarations"}
    /\ parseResult.stderr # <<>> => parseResult.program = Program(<<>>)
    /\ parseInput.k = "decls" =>
         IF HasSyntaxError(parseInput.ds)
         THEN parseResult.stderr # <<>> /\ parseResult.program = Program(<<>>)
         ELSE /\ parseResult.stderr = <<>>
              /\ Len(parseResult.program.declarations) = Len(parseInput.ds)

\* C5: parse(tokens) always returns a Program (every step of parse either moves
\* the cursor forward, within the tokens, or returns), and when a parse error
\* occurs anywhere in the token stream the returned Program has an empty
\* declaration list, even when declarations before the error were parsed.
C5_ParseAlwaysReturnsProgram ==
  [][/\ parseResult = ParseRunning
     /\ \/ parseResult' = ParseRunning /\ current < current' /\ current' < Len(ptokens)
        \/ ParseReturned'
     /\ ParseResultAsSpecified']_vars

\* a parse that failed after at least one declaration had been parsed
C5_Witness ==
  /\ ParseReturned
  /\ parseResult.stderr # <<>>
  /\ Len(declarations) >= 1
  /\ parseResult.program = Program(<<>>)

\* the operator each lexeme of the cascade denotes, and how tightly it binds:
\* BinOp::precedence, with `??` looser than every BinOp
LexemeBinOp(s) ==
  CASE s = "||" -> "Or" [] s = "&&" -> "And" [] s = "|" -> "BitwiseOr" [] s = "^" -> "BitwiseXor"
    [] s = "&" -> "BitwiseAnd" [] s = "==" -> "Eq" [] s = "!=" -> "Ne" [] s = "<" -> "Lt"
    [] s = ">" -> "Gt" [] s = "<=" -> "Le" [] s = ">=" -> "Ge" [] s = "<<" -> "ShiftLeft"
    [] s = ">>" -> "ShiftRight" [] s = "+" -> "Add" [] s = "-" -> "Sub" [] s = "*" -> "Mul"
    [] s = "/" -> "Div" [] s = "%" -> "Mod"
Tightness(s) == IF s = "??" THEN 0 ELSE precedence(LexemeBinOp(s))
OpNode(s, l, r) ==
  CASE s = "??" -> NullCoalesce(l, r)
    [] s = "=" -> Assign(l, r)
    [] OTHER -> Binary(l, LexemeBinOp(s), r)
LeftFirst(op1, op2) == OpNode(op2, OpNode(op1, Identifier("a"), Identifier("b")), Identifier("c"))
RightFirst(op1, op2) == OpNode(op1, Identifier("a"), OpNode(op2, Identifier("b"), Identifier("c")))

\* C6: in `a op1 b op2 c` the operator on the tighter level of the cascade takes
\* b: a op_lo (b op_hi c) and (a op_hi b) op_lo c; two operators of one level
\* associate to the left; assignment associates to the right.
C6_OperatorPrecedence ==
  (ParseReturned /\ parseInput.k = "expr") =>
    LET op1 == parseInput.op1
        op2 == parseInput.op2 IN
    /\ (op1 # "=" /\ op2 # "=") =>
         parseResult.program =
           FnF(<<ExprS(IF Tightness(op2) > Tightness(op1) THEN RightFirst(op1, op2)
                       ELSE LeftFirst(op1, op2))>>)
    /\ (op1 = "=" /\ op2 = "=") => parseResult.program = FnF(<<ExprS(RightFirst("=", "="))>>)

\* `a - b * c` has been parsed, to a Program with a declaration
C6_Witness ==
  /\ ParseReturned
  /\ parseInput = ExprInput("-", "*")
  /\ parseResult.program.declarations # <<>>

\* C7: for every expression e, `if e { .. }`, `while e { .. }` and
\* `for v in e { .. }` parse to the If / While / For statement whose condition
\* or iterable is e and whose body is the brace block that follows.
C7_BlockStatementsNotStructLiterals ==
  (ParseReturned /\ parseInput.k = "block") => parseResult.program = FnF(<<parseInput.s.ast>>)

(***************************************************************************)
(* The interpreter (interpreter/mod.rs).  Values are records tagged by t;  *)
(* a HashMap is a function from its keys.                                  *)
(***************************************************************************)
Value_Nil == [t |-> "Nil"]
Value_Bool(b) == [t |-> "Bool", v |-> b]
Value_Int(i) == [t |-> "Int", v |-> i]
Value_Float(x) == [t |-> "Float", v |-> x]
Value_String(x) == [t |-> "String", v |-> x]
Value_Array(a) == [t |-> "Array", v |-> a]
Value_Map(m) == [t |-> "Map", v |-> m]
Value_Struct(n, fields) == [t |-> "Struct", name |-> n, fields |-> fields]
Value_NativeAction(n) == [t |-> "NativeAction", f |-> n]

is_truthy(v) ==
  CASE v.t = "Nil" -> FALSE
    [] v.t = "Bool" -> v.v
    [] v.t = "Int" -> v.v # 0
    [] OTHER -> TRUE

HashMap_new == <<>>
insert(m, k, v) == [x \in DOMAIN m \cup {k} |-> IF x = k THEN v ELSE m[x]]

\* the names Environment::new defines in the global scope
NativeNames ==
  {"print", "len", "push", "pop", "map_new", "map_set", "map_get", "rgba", "rgb", "hex",
   "ai_generate", "file_read", "file_write", "file_exists", "file_delete", "file_size",
   "dir_list", "time_now", "time_millis", "time_sleep", "env_get", "env_args",
   "process_exec", "random_int", "http_get"}

\* what a native returns for the arguments a.  The collection natives and print
\* (whose output is not modelled) are defined; the natives that read files, the
\* clock, the process environment or the network are not, and no program of
\* the model calls them.  len of a String is not defined either.
native(n, a) ==
  CASE n = "print" -> Value_Nil
    [] n = "len" ->
         IF a # <<>> /\ a[1].t = "Array" THEN Value_Int(Len(a[1].v))
         ELSE IF a # <<>> /\ a[1].t = "Map" THEN Value_Int(Cardinality(DOMAIN a[1].v))
         ELSE IF a # <<>> /\ a[1].t = "String" THEN CHOOSE undefined \in {} : TRUE
         ELSE Value_Int(0)
    [] n = "push" ->
         IF Len(a) >= 2 /\ a[1].t = "Array" THEN Value_Array(Append(a[1].v, a[2])) ELSE Value_Nil
    [] n = "pop" ->
         IF a # <<>> /\ a[1].t = "Array"
         THEN IF a[1].v = <<>> THEN Value_Nil ELSE a[1].v[Len(a[1].v)]
         ELSE Value_Nil
    [] n = "map_new" -> Value_Map(HashMap_new)
    [] n = "map_set" ->
         IF Len(a) >= 3 /\ a[1].t = "Map" /\ a[2].t = "String"
         THEN Value_Map(insert(a[1].v, a[2].v, a[3])) ELSE Value_Nil
    [] n = "map_get" ->
         IF Len(a) >= 2 /\ a[1].t = "Map" /\ a[2].t = "String"
         THEN IF a[2].v \in DOMAIN a[1].v THEN a[1].v[a[2].v] ELSE Value_Nil
         ELSE Value_Nil

Environment_new == [scopes |-> << [n \in NativeNames |-> Value_NativeAction(n)] >>]

\* An evaluation threads st: the scopes of Interpreter.env, the trace of what
\* has been executed, the depth of the scope stack after each push and pop, and
\* the loop iterations and calls it may still start before the evaluation
\* counts as not returning.
Environment_push(st) ==
  [st EXCEPT !.scopes = Append(@, HashMap_new), !.depths = Append(@, Len(st.scopes) + 1)]
Environment_pop(st) ==
  IF Len(st.scopes) > 1
  THEN [st EXCEPT !.scopes = SubSeq(@, 1, Len(@) - 1), !.depths = Append(@, Len(st.scopes) - 1)]
  ELSE [st EXCEPT !.depths = Append(@, Len(st.scopes))]
Environment_define(st, n, v) ==
  IF st.scopes = <<>> THEN st ELSE [st EXCEPT !.scopes[Len(st.scopes)] = insert(@, n, v)]
\* the scopes that hold n; the innermost is the greatest
Holders(st, n) == {i \in 1..Len(st.scopes) : n \in DOMAIN st.scopes[i]}
Innermost(S) == CHOOSE i \in S : \A j \in S : j <= i
Environment_get(st, n) ==
  IF Holders(st, n) = {} THEN NoneV ELSE Some(st.scopes[Innermost(Holders(st, n))][n])
\* the outermost scope that holds n is the one changed
Environment_set_outermost(st, n, v) ==
  IF Holders(st, n) = {} THEN [found |-> FALSE, st |-> st]
  ELSE [found |-> TRUE,
        st |-> [st EXCEPT !.scopes[CHOOSE i \in Holders(st, n) : \A j \in Holders(st, n) : i <= j][n] = v]]

Environment_set(st, n, v) ==
  IF Holders(st, n) = {} THEN [found |-> FALSE, st |-> st]
  ELSE [found |-> TRUE, st |-> [st EXCEPT !.scopes[Innermost(Holders(st, n))][n] = v]]

Log(st, event) == [st EXCEPT !.trace = Append(@, event)]
Spend(st) == [st EXCEPT !.fuel = @ - 1]

\* Result<Value, RuntimeError> with the state the evaluation left, or Diverge:
\* the evaluation was still looping or calling when st.fuel ran out
Ok(v, st) == [k |-> "Ok", v |-> v, st |-> st]
RuntimeError_new(m, st) == [k |-> "Err", v |-> m, st |-> st]
Diverge(st) == [k |-> "Diverge", v |-> "", st |-> st]

eq(a, b) ==
  CASE a.t = "Nil" /\ b.t = "Nil" -> TRUE
    [] a.t = "Bool" /\ b.t = "Bool" -> a.v = b.v
    [] a.t = "Int" /\ b.t = "Int" -> a.v = b.v
    [] a.t = "String" /\ b.t = "String" -> a.v = b.v
    [] OTHER -> FALSE

\* i64 division truncates toward zero and the remainder has the dividend's sign
Abs(a) == IF a < 0 THEN -a ELSE a
i64_div(a, b) == IF (a < 0) = (b < 0) THEN Abs(a) \div Abs(b) ELSE -(Abs(a) \div Abs(b))
i64_rem(a, b) == a - b * i64_div(a, b)

\* two's complement bitwise operators on integers: f gives the result bit
RECURSIVE bitwise(_, _, _)
bitwise(f, a, b) ==
  IF a \in {0, -1} /\ b \in {0, -1} THEN -f[-a][-b]
  ELSE f[a % 2][b % 2] + 2 * bitwise(f, a \div 2, b \div 2)
BitAnd == [x \in 0..1 |-> [y \in 0..1 |-> IF x = 1 /\ y = 1 THEN 1 ELSE 0]]
BitOr == [x \in 0..1 |-> [y \in 0..1 |-> IF x = 1 \/ y = 1 THEN 1 ELSE 0]]
BitXor == [x \in 0..1 |-> [y \in 0..1 |-> IF x # y THEN 1 ELSE 0]]
RECURSIVE Pow2(_)
Pow2(n) == IF n = 0 THEN 1 ELSE 2 * Pow2(n - 1)

IntInt(l, r) == l.t = "Int" /\ r.t = "Int"

\* Interpreter::binop.  The integers of the model are small: no sum or product
\* leaves i64, and a shift is by 0..30 places.
binop(l, o, r, st) ==
  CASE o = "Add" ->
         IF IntInt(l, r) THEN Ok(Value_Int(l.v + r.v), st)
         ELSE IF l.t = "String" /\ r.t = "String" THEN Ok(Value_String(l.v \o r.v), st)
         ELSE RuntimeError_new("+", st)
    [] o = "Sub" -> IF IntInt(l, r) THEN Ok(Value_Int(l.v - r.v), st) ELSE RuntimeError_new("-", st)
    [] o = "Mul" -> IF IntInt(l, r) THEN Ok(Value_Int(l.v * r.v), st) ELSE RuntimeError_new("*", st)
    [] o = "Div" ->
         IF IntInt(l, r) /\ r.v # 0 THEN Ok(Value_Int(i64_div(l.v, r.v)), st)
         ELSE RuntimeError_new("/", st)
    [] o = "Mod" ->
         IF IntInt(l, r) /\ r.v # 0 THEN Ok(Value_Int(i64_rem(l.v, r.v)), st)
         ELSE RuntimeError_new("%", st)
    [] o = "Eq" -> Ok(Value_Bool(eq(l, r)), st)
    [] o = "Ne" -> Ok(Value_Bool(~eq(l, r)), st)
    [] o = "Lt" -> IF IntInt(l, r) THEN Ok(Value_Bool(l.v < r.v), st) ELSE RuntimeError_new("<", st)
    [] o = "Gt" -> IF IntInt(l, r) THEN Ok(Value_Bool(l.v > r.v), st) ELSE RuntimeError_new(">", st)
    [] o = "Le" -> IF IntInt(l, r) THEN Ok(Value_Bool(l.v <= r.v), st) ELSE RuntimeError_new("<=", st)
    [] o = "Ge" -> IF IntInt(l, r) THEN Ok(Value_Bool(l.v >= r.v), st) ELSE RuntimeError_new(">=", st)
    [] o = "And" -> Ok(Value_Bool(is_truthy(l) /\ is_truthy(r)), st)
    [] o = "Or" -> Ok(Value_Bool(is_truthy(l) \/ is_truthy(r)), st)
    [] o = "BitwiseAnd" ->
         IF IntInt(l, r) THEN Ok(Value_Int(bitwise(BitAnd, l.v, r.v)), st) ELSE RuntimeError_new("&", st)
    [] o = "BitwiseOr" ->
         IF IntInt(l, r) THEN Ok(Value_Int(bitwise(BitOr, l.v, r.v)), st) ELSE RuntimeError_new("|", st)
    [] o = "BitwiseXor" ->
         IF IntInt(l, r) THEN Ok(Value_Int(bitwise(BitXor, l.v, r.v)), st) ELSE RuntimeError_new("^", st)
    [] o = "ShiftLeft" /\ (IntInt(l, r) => r.v \in 0..30) ->
         IF IntInt(l, r) THEN Ok(Value_Int(l.v * Pow2(r.v)), st) ELSE RuntimeError_new("<<", st)
    [] o = "ShiftRight" /\ (IntInt(l, r) => r.v \in 0..30) ->
         IF IntInt(l, r) THEN Ok(Value_Int(l.v \div Pow2(r.v)), st) ELSE RuntimeError_new(">>", st)

\* Interpreter::pat
pat(p, v) ==
  CASE p.t \in {"Wildcard", "Identifier"} -> TRUE
    [] p.t = "Literal" ->
         CASE p.lit.t = "Int" /\ v.t = "Int" -> p.lit.v = v.v
           [] p.lit.t = "Bool" /\ v.t = "Bool" -> p.lit.v = v.v
           [] OTHER -> FALSE

RECURSIVE define_params(_, _, _, _), call(_, _, _), block(_, _), nested_block(_, _), block_stmts(_, _, _, _), stmt(_, _), while_loop(_, _),
          for_loop(_, _, _, _), expr(_, _), args_loop(_, _, _, _), fields_loop(_, _, _, _),
          arms_loop(_, _, _, _)

\* the events of the trace
CallEvent(f, a) == [e |-> "call", f |-> f.name, args |-> a]
StmtEvent(s) == [e |-> "stmt", s |-> s]
ReturnEvent(v) == [e |-> "return", v |-> v]
ExitEvent(f, r) == [e |-> "exit", f |-> f.name, k |-> r.k, v |-> r.v]

\* `for (i, p) in f.params.iter().enumerate() { self.env.define(&p.name,
\* a.get(i).cloned().unwrap_or(Value::Nil)); }`, from the i-th parameter on
define_params(params, a, i, st) ==
  IF i > Len(params) THEN st
  ELSE define_params(params, a, i + 1,
         Environment_define(st, params[i].name, IF i <= Len(a) THEN a[i] ELSE Value_Nil))

\* Interpreter::call
call(f, a, st) ==
  IF st.fuel = 0 THEN Diverge(st) ELSE
  Let([r \in {block(f.body, define_params(f.params, a, 1, Environment_push(Log(Spend(st), CallEvent(f, a)))))} |->
    IF r.k = "Diverge" THEN r
    ELSE [r EXCEPT !.st = Log(Environment_pop(r.st), ExitEvent(f, r))] ])

\* Interpreter::block: `for s in &b.statements { r = self.stmt(s)?; if
\* matches!(s, Stmt::Return(_)) { return Ok(r); } } Ok(r)`
block(b, st) == block_stmts(b.statements, 1, Value_Nil, st)

block_stmts(statements, i, r, st) ==
  IF i > Len(statements) THEN Ok(r, st) ELSE
  Let([x \in {stmt(statements[i], st)} |->
    IF x.k # "Ok" THEN x
    ELSE IF statements[i].t = "Return" THEN x
    ELSE block_stmts(statements, i + 1, x.v, x.st) ])

\* self.block(b) as the block of an if, the body of a while or a block
\* statement; when it has been evaluated the scopes before and after it are
\* recorded
nested_block(b, st) ==
  Let([r \in {block(b, st)} |->
    IF r.k # "Ok" THEN r
    ELSE [r EXCEPT !.st.frames = Append(@, [block |-> b, before |-> st.scopes, after |-> r.st.scopes])] ])

\* Stmt::While: `while self.expr(&w.condition)?.is_truthy() { self.block(&w.body)?; }`
while_loop(w, st) ==
  Let([c \in {expr(w.condition, st)} |->
    IF c.k # "Ok" THEN c
    ELSE IF ~is_truthy(c.v) THEN Ok(Value_Nil, c.st)
    ELSE IF c.st.fuel = 0 THEN Diverge(c.st)
    ELSE Let([body \in {nested_block(w.body, Spend(c.st))} |->
           IF body.k # "Ok" THEN body ELSE while_loop(w, body.st) ]) ])

\* Stmt::For over the array a, from its i-th element: `self.env.push();
\* self.env.define(&f.var, i); self.block(&f.body)?; self.env.pop();`
for_loop(f, a, i, st) ==
  IF i > Len(a) THEN Ok(Value_Nil, st) ELSE
  Let([body \in {block(f.body, Environment_define(Environment_push(st), f.var, a[i]))} |->
    IF body.k # "Ok" THEN body
    ELSE for_loop(f, a, i + 1, Environment_pop(body.st)) ])

\* Interpreter::stmt
stmt(s, st) ==
  CASE s.t = "Let" ->
         IF s.init = NoneV THEN Ok(Value_Nil, Environment_define(Log(st, StmtEvent(s)), s.name, Value_Nil))
         ELSE Let([v \in {expr(s.init.v, Log(st, StmtEvent(s)))} |->
                IF v.k # "Ok" THEN v
                ELSE Ok(Value_Nil, Environment_define(v.st, s.name, v.v)) ])
    [] s.t = "Expr" -> expr(s.e, Log(st, StmtEvent(s)))
    [] s.t = "Return" ->
         IF s.value = NoneV THEN Ok(Value_Nil, Log(Log(st, StmtEvent(s)), ReturnEvent(Value_Nil)))
         ELSE Let([v \in {expr(s.value.v, Log(st, StmtEvent(s)))} |->
                IF v.k # "Ok" THEN v ELSE Ok(v.v, Log(v.st, ReturnEvent(v.v))) ])
    [] s.t = "If" ->
         Let([c \in {expr(s.condition, Log(st, StmtEvent(s)))} |->
           IF c.k # "Ok" THEN c
           ELSE IF is_truthy(c.v) THEN nested_block(s.then_block, c.st)
           ELSE IF s.else_block = NoneV THEN Ok(Value_Nil, c.st)
           ELSE nested_block(s.else_block.v, c.st) ])
    [] s.t = "While" -> while_loop(s, Log(st, StmtEvent(s)))
    [] s.t = "For" ->
         Let([it \in {expr(s.iterable, Log(st, StmtEvent(s)))} |->
           IF it.k # "Ok" THEN it
           ELSE IF it.v.t = "Array" THEN for_loop(s, it.v.v, 1, it.st)
           ELSE Ok(Value_Nil, it.st) ])
    [] s.t = "Block" -> nested_block(s.b, Log(st, StmtEvent(s)))
    [] OTHER -> Ok(Value_Nil, Log(st, StmtEvent(s)))

\* the arguments are evaluated from the last to the first
args_loop_right_to_left(es, i, vs, st) ==
  IF i > Len(es) THEN Ok(vs, st) ELSE
  Let([x \in {expr(es[Len(es) + 1 - i], st)} |->
    IF x.k # "Ok" THEN x ELSE args_loop(es, i + 1, <<x.v>> \o vs, x.st) ])

\* `a.iter().map(|x| self.expr(x)).collect::<Result<_,_>>()?`: the values of
\* the expressions es from the i-th on, appended to vs; stops at the first error
args_loop(es, i, vs, st) ==
  IF i > Len(es) THEN Ok(vs, st) ELSE
  Let([x \in {expr(es[i], st)} |->
    IF x.k # "Ok" THEN x ELSE args_loop(es, i + 1, Append(vs, x.v), x.st) ])

\* Expr::StructLit: `for (k,v) in fs { m.insert(k.clone(), self.expr(v)?); }`
fields_loop(fs, i, m, st) ==
  IF i > Len(fs) THEN Ok(m, st) ELSE
  Let([x \in {expr(fs[i][2], st)} |->
    IF x.k # "Ok" THEN x ELSE fields_loop(fs, i + 1, insert(m, fs[i][1], x.v), x.st) ])

\* Expr::Match: `for arm in arms { if self.pat(&arm.pattern, &v) { return
\* self.expr(&arm.body); } } Ok(Value::Nil)`
arms_loop(arms, i, v, st) ==
  IF i > Len(arms) THEN Ok(Value_Nil, st)
  ELSE IF pat(arms[i].pattern, v) THEN expr(arms[i].body, st)
  ELSE arms_loop(arms, i + 1, v, st)

literal(l) ==
  CASE l.t = "Int" -> Value_Int(l.v)
    [] l.t = "Float" -> Value_Float(l.v)
    [] l.t = "String" -> Value_String(l.v)
    [] l.t = "Bool" -> Value_Bool(l.v)

unary(o, v, st) ==
  CASE o = "Neg" -> IF v.t = "Int" THEN Ok(Value_Int(-v.v), st) ELSE RuntimeError_new("-", st)
    [] o = "Not" -> Ok(Value_Bool(~is_truthy(v)), st)
    [] o = "BitwiseNot" -> IF v.t = "Int" THEN Ok(Value_Int(-v.v - 1), st) ELSE RuntimeError_new("~", st)

\* Expr::Call with the argument values vs: a native of that name in the
\* environment first, then a registered function
call_named(n, vs, st) ==
  IF Environment_get(st, n) # NoneV /\ Environment_get(st, n).v.t = "NativeAction"
  THEN Ok(native(Environment_get(st, n).v.f, vs), st)
  ELSE IF n \in DOMAIN interp.functions THEN call(interp.functions[n], vs, st)
  ELSE RuntimeError_new("call", st)

assign(target, val, st) ==
  IF target.t # "Identifier" THEN RuntimeError_new("target", st)
  ELSE IF Environment_set(st, target.name, val).found
  THEN Ok(val, Environment_set(st, target.name, val).st)
  ELSE RuntimeError_new("undef", st)

\* `arr.get(idx as usize)`: a negative index is out of bounds
index(av, iv, st) ==
  IF av.t = "Array" /\ iv.t = "Int"
  THEN IF iv.v >= 0 /\ iv.v < Len(av.v) THEN Ok(av.v[iv.v + 1], st) ELSE RuntimeError_new("bounds", st)
  ELSE RuntimeError_new("index", st)

member(ov, f, st) ==
  IF ov.t = "Struct"
  THEN IF f \in DOMAIN ov.fields THEN Ok(ov.fields[f], st) ELSE RuntimeError_new("field", st)
  ELSE RuntimeError_new("member", st)

\* a compound assignment evaluates its operand and assigns it to the target
expr_fallthrough_assigns(e, st) ==
  IF e.t # "CompoundAssign" THEN Ok(Value_Nil, st) ELSE
  Let([val \in {expr(e.value, st)} |->
    IF val.k # "Ok" THEN val ELSE assign(e.target, val.v, val.st) ])

\* `_ => Ok(Value::Nil)`: the expressions expr has no arm for
expr_fallthrough(e, st) == Ok(Value_Nil, st)

\* Interpreter::expr
expr(e, st) ==
  CASE e.t = "Literal" -> Ok(literal(e.lit), st)
    [] e.t = "Identifier" ->
         IF Environment_get(st, e.name) = NoneV THEN RuntimeError_new("undefined: " \o e.name, st)
         ELSE Ok(Environment_get(st, e.name).v, st)
    [] e.t = "Binary" ->
         Let([lv \in {expr(e.l, st)} |->
           IF lv.k # "Ok" THEN lv ELSE
         Let([rv \in {expr(e.r, lv.st)} |->
           IF rv.k # "Ok" THEN rv ELSE binop(lv.v, e.op, rv.v, rv.st) ]) ])
    [] e.t = "Unary" ->
         Let([v \in {expr(e.x, st)} |-> IF v.k # "Ok" THEN v ELSE unary(e.op, v.v, v.st) ])
    [] e.t = "Call" ->
         IF e.callee.t # "Identifier" THEN RuntimeError_new("call", st) ELSE
         Let([vs \in {args_loop(e.args, 1, <<>>, st)} |->
           IF vs.k # "Ok" THEN vs ELSE call_named(e.callee.name, vs.v, vs.st) ])
    [] e.t = "Member" ->
         Let([ov \in {expr(e.obj, st)} |-> IF ov.k # "Ok" THEN ov ELSE member(ov.v, e.name, ov.st) ])
    [] e.t = "Index" ->
         Let([av \in {expr(e.obj, st)} |->
           IF av.k # "Ok" THEN av ELSE
         Let([iv \in {expr(e.index, av.st)} |->
           IF iv.k # "Ok" THEN iv ELSE index(av.v, iv.v, iv.st) ]) ])
    [] e.t = "Assign" ->
         Let([val \in {expr(e.value, st)} |->
           IF val.k # "Ok" THEN val ELSE assign(e.target, val.v, val.st) ])
    [] e.t = "ArrayLit" ->
         Let([vs \in {args_loop(e.elems, 1, <<>>, st)} |->
           IF vs.k # "Ok" THEN vs ELSE Ok(Value_Array(vs.v), vs.st) ])
    [] e.t = "StructLit" ->
         Let([m \in {fields_loop(e.fields, 1, HashMap_new, st)} |->
           IF m.k # "Ok" THEN m ELSE Ok(Value_Struct(e.name, m.v), m.st) ])
    [] e.t = "Match" ->
         Let([v \in {expr(e.scrutinee, st)} |->
           IF v.k # "Ok" THEN v ELSE arms_loop(e.arms, 1, v.v, v.st) ])
    [] e.t = "Nil" -> Ok(Value_Nil, st)
    [] e.t = "NullCoalesce" ->
         Let([l \in {expr(e.l, st)} |->
           IF l.k # "Ok" THEN l
           ELSE IF l.v.t = "Nil" THEN expr(e.r, l.st)
           ELSE l ])
    [] OTHER -> expr_fallthrough(e, st)

(***************************************************************************)
(* The programs given to eval.                                             *)
(***************************************************************************)
MaxSteps == 4   \* loop iterations and calls an evaluation may start

Return(e) == ReturnS(Some(e))
OneByZero == ExprS(Binary(LitInt(1), "Div", LitInt(0)))
CallG == Call(Identifier("g"), <<LitInt(7)>>)

\* the statements main is made of
MainStmts ==
  { LetS("x", FALSE, NoneV, Some(LitInt(5))),
    LetS("y", TRUE, Some(TypeT("Int")), NoneV),
    Return(Binary(Identifier("x"), "Add", LitInt(1))),
    Return(LitInt(2)),
    ReturnS(NoneV),
    IfS(Binary(LitInt(5), "Gt", LitInt(3)), Block(<<Return(LitInt(1))>>), Some(Block(<<Return(LitInt(0))>>))),
    IfS(LitBool(TRUE), Block(<<Return(LitInt(1))>>), NoneV),
    IfS(LitBool(FALSE), Block(<<Return(LitInt(1))>>), Some(Block(<<Return(LitInt(3))>>))),
    WhileS(LitBool(TRUE), Block(<<Return(LitInt(1))>>)),
    WhileS(Binary(Identifier("x"), "Lt", LitInt(7)),
           Block(<<ExprS(Assign(Identifier("x"), Binary(Identifier("x"), "Add", LitInt(1))))>>)),
    ForS("i", ArrayLit(<<LitInt(1), LitInt(2)>>), Block(<<Return(Identifier("i"))>>)),
    ForS("i", ArrayLit(<<LitInt(1)>>), Block(<<OneByZero>>)),
    ForS("i", ArrayLit(<<LitInt(1), LitInt(2)>>), Block(<<ExprS(Call(Identifier("print"), <<Identifier("i")>>))>>)),
    BlockS(Block(<<Return(LitInt(1))>>)),
    OneByZero,
    ExprS(CallG),
    Return(CallG),
    ExprS(Assign(Identifier("x"), LitInt(1))),
    ExprS(Match(LitInt(1), <<MatchArm(PatLiteral([t |-> "Int", v |-> 2]), LitInt(8)),
                            MatchArm(PatWildcard, Member(StructLitE("S", << <<"a", LitInt(9)>> >>), "a"))>>)),
    ExprS(NullCoalesce(NilE, Index(ArrayLit(<<LitInt(4)>>), Unary("Neg", LitInt(1))))),
    ThrowS(LitInt(1)),
    BlockS(Block(<<LetS("z", FALSE, NoneV, Some(LitInt(1)))>>)),
    IfS(LitBool(TRUE), Block(<<LetS("x", FALSE, NoneV, Some(LitInt(1)))>>), NoneV),
    WhileS(Binary(Identifier("x"), "Lt", LitInt(7)), Block(<<LetS("x", FALSE, NoneV, Some(LitInt(7)))>>)),
    Return(Identifier("z")) }

Main(stmts) == FnDecl("main", <<>>, Some(TypeT("Int")), Block(stmts))

\* fn g(n: int) -> int { if n > 0 { return n; } return 0; }
FnG ==
  FnDecl("g", <<Param("n", TypeT("Int"))>>, Some(TypeT("Int")),
         Block(<<IfS(Binary(Identifier("n"), "Gt", LitInt(0)), Block(<<Return(Identifier("n"))>>), NoneV),
                 Return(LitInt(0))>>))
\* fn g() -> int { return 3; }
FnG3 == FnDecl("g", <<>>, Some(TypeT("Int")), Block(<<Return(LitInt(3))>>))
StructS == StructDecl("S", <<Field("a", TypeT("Int"))>>)

\* the declarations around main
Others == {<<>>, <<StructS, FnG>>, <<ImportDecl(<<"a", "b">>), FnG3, FnG>>}

\* the programs of the interpreter's tests: `return 2 + 3 * 4;`,
\* `let x = 5; let y = 10; return x + y;`, `if 5 > 3 { return 1; } else { return 0; }`
TestArithmetic ==
  Program(<<Main(<<Return(Binary(LitInt(2), "Add", Binary(LitInt(3), "Mul", LitInt(4))))>>)>>)
TestVariables ==
  Program(<<Main(<<LetS("x", FALSE, NoneV, Some(LitInt(5))), LetS("y", FALSE, NoneV, Some(LitInt(10))),
                   Return(Binary(Identifier("x"), "Add", Identifier("y")))>>)>>)
TestConditionals ==
  Program(<<Main(<<IfS(Binary(LitInt(5), "Gt", LitInt(3)), Block(<<Return(LitInt(1))>>),
                       Some(Block(<<Return(LitInt(0))>>)))>>)>>)

\* fn seven() -> int { return 7; }
FnSeven == FnDecl("seven", <<>>, Some(TypeT("Int")), Block(<<Return(LitInt(7))>>))
\* fn main() -> int { return match x { p1 => 10, p2 => 20 }; } after fn seven:
\* x a literal, nil or seven(), up to MaxArms arms
MaxArms == 2
Scrutinees ==
  {LitInt(1), LitInt(7), LitBool(TRUE), LitString("s"), LitString("t"), NilE, Call(Identifier("seven"), <<>>)}
Patterns ==
  {PatLiteral([t |-> "Int", v |-> 1]), PatLiteral([t |-> "Int", v |-> 7]),
   PatLiteral([t |-> "Bool", v |-> TRUE]), PatLiteral([t |-> "Bool", v |-> FALSE]),
   PatLiteral([t |-> "String", v |-> "s"]), PatWildcard, PatIdentifier("n")}
MatchOf(x, pats) == Match(x, [i \in DOMAIN pats |-> MatchArm(pats[i], LitInt(10 * i))])
MatchPrograms ==
  {Program(<<FnSeven, Main(<<Return(MatchOf(x, pats))>>)>>) :
     x \in Scrutinees, pats \in SeqsUpTo(Patterns, MaxArms)}

\* fn main() -> int { let x = 5; h(); return x; } with fn h() { body } called
\* by main, or by fn k() { h(); } that main calls
CalleeBodies ==
  { <<Return(Identifier("x"))>>,
    <<ExprS(Assign(Identifier("x"), LitInt(9)))>>,
    <<LetS("x", FALSE, NoneV, Some(LitInt(9))), Return(Identifier("x"))>>,
    <<Return(LitInt(1))>> }
FnH(body) == FnDecl("h", <<>>, NoneV, Block(body))
FnK == FnDecl("k", <<>>, NoneV, Block(<<ExprS(Call(Identifier("h"), <<>>))>>))
ScopeProgram(body, through) ==
  Program(<<FnH(body), FnK,
            Main(<<LetS("x", FALSE, NoneV, Some(LitInt(5))),
                   ExprS(Call(Identifier(IF through THEN "k" ELSE "h"), <<>>)),
                   Return(Identifier("x"))>>)>>)
ScopePrograms == {ScopeProgram(body, through) : body \in CalleeBodies, through \in BOOLEAN}

\* fn a() -> int { return 1; }  fn b() -> int { return 2; }
\* fn e() -> int { return 1 / 0; }  fn h(p: int, q: int) -> int { return 3; }
\* and main evaluating x() op y(), h(x(), y()), or x(); y();
FnConst(n, v) == FnDecl(n, <<>>, Some(TypeT("Int")), Block(<<Return(LitInt(v))>>))
FnE == FnDecl("e", <<>>, Some(TypeT("Int")), Block(<<Return(Binary(LitInt(1), "Div", LitInt(0)))>>))
FnH2 ==
  FnDecl("h", <<Param("p", TypeT("Int")), Param("q", TypeT("Int"))>>, Some(TypeT("Int")),
         Block(<<Return(LitInt(3))>>))
Callees0 == {"a", "b", "e"}
Call0(n) == Call(Identifier(n), <<>>)
OrderForms ==
  {"Add", "Sub", "Mul", "Div", "Mod", "Eq", "Ne", "Lt", "Gt", "Le", "Ge", "And", "Or",
   "BitwiseAnd", "BitwiseOr", "BitwiseXor", "ShiftLeft", "ShiftRight", "call", "statements"}
OrderBody(form, x, y) ==
  CASE form = "call" -> <<Return(Call(Identifier("h"), <<Call0(x), Call0(y)>>))>>
    [] form = "statements" -> <<ExprS(Call0(x)), ExprS(Call0(y))>>
    [] OTHER -> <<Return(Binary(Call0(x), form, Call0(y)))>>
OrderProgram(form, x, y) == Program(<<FnConst("a", 1), FnConst("b", 2), FnE, FnH2, Main(OrderBody(form, x, y))>>)
OrderPrograms == {OrderProgram(form, x, y) : form \in OrderForms, x \in Callees0, y \in Callees0}

\* fn main() -> int { let x = 5; s } and fn main() -> int { let x = 5; s return x; }
\* for a statement s the interpreter has no arm for; a() is its operand or condition
SetX(v) == ExprS(Assign(Identifier("x"), LitInt(v)))
InertStmts ==
  {ExprS(CompoundAssign(Identifier("x"), op, Call0("a"))) : op \in {"AddEq", "SubEq", "MulEq", "DivEq", "ModEq"}}
    \cup {ExprS(PreIncrement(Identifier("x"))), ExprS(PostIncrement(Identifier("x"))),
          ExprS(PreDecrement(Identifier("x"))), ExprS(PostDecrement(Identifier("x")))}
    \cup {GuardS(Call0("a"), Block(<<SetX(9)>>)), DeferS(Block(<<SetX(9)>>)),
          TryCatchS(Block(<<SetX(9)>>), Some("err"), Block(<<SetX(8)>>)), ThrowS(Call0("a"))}
InertProgram(s0, returns) ==
  Program(<<FnConst("a", 1),
            Main(<<LetS("x", FALSE, NoneV, Some(LitInt(5))), s0>>
                   \o (IF returns THEN <<Return(Identifier("x"))>> ELSE <<>>))>>)
InertPrograms == {InertProgram(s0, returns) : s0 \in InertStmts, returns \in BOOLEAN}

Programs ==
  {Program(o \o <<Main(<<s1, s2>>)>>) : o \in Others, s1 \in MainStmts, s2 \in MainStmts}
    \cup {Program(<<Main(<<s1, s2>>)>> \o o) : o \in Others, s1 \in MainStmts, s2 \in MainStmts}
    \cup {Program(o) : o \in Others}
    \cup {TestArithmetic, TestVariables, TestConditionals}
    \cup MatchPrograms
    \cup ScopePrograms
    \cup OrderPrograms
    \cup InertPrograms

(***************************************************************************)
(* Interpreter::new().eval(ast) as a state machine: the loop over the      *)
(* declarations, then the call of main.                                    *)
(***************************************************************************)
EvalRunning == [k |-> "Running"]
Interpreter_new == [env |-> Environment_new, structs |-> HashMap_new, functions |-> HashMap_new]

EvalInit ==
  /\ ast \in Programs
  /\ interp = Interpreter_new
  /\ evalPos = 0
  /\ evalResult = EvalRunning
  /\ evalTrace = <<>>
  /\ evalDepths = <<>>
  /\ evalFrames = <<>>
  /\ LexIdle
  /\ ParseIdle
  /\ OpIdle
  /\ CheckIdle
  /\ EnvIdle

\* one turn of `for d in &ast.declarations { match d { .. } }`
EvalRegister ==
  /\ evalResult = EvalRunning
  /\ evalPos < Len(ast.declarations)
  /\ \E d \in {ast.declarations[evalPos + 1]} :
       interp' = CASE d.t = "Struct" -> [interp EXCEPT !.structs = insert(@, d.name, d)]
                   [] d.t = "Function" -> [interp EXCEPT !.functions = insert(@, d.name, d)]
                   [] OTHER -> interp
  /\ evalPos' = evalPos + 1
  /\ UNCHANGED <<ast, evalResult, evalTrace, evalDepths, evalFrames, notInterpVars>>

\* what eval does with the outcome r of the call of f
EvalCalled(r) ==
  /\ interp' = [interp EXCEPT !.env.scopes = r.st.scopes]
  /\ evalResult' = IF r.k = "Diverge" THEN [k |-> "NoReturn"]
                   ELSE [k |-> "Returned", r |-> [k |-> r.k, v |-> r.v]]
  /\ evalTrace' = r.st.trace
  /\ evalDepths' = r.st.depths
  /\ evalFrames' = r.st.frames
  /\ UNCHANGED <<ast, evalPos, notInterpVars>>

EvalState ==
  [scopes |-> interp.env.scopes, trace |-> <<>>, depths |-> <<>>, frames |-> <<>>, fuel |-> MaxSteps]

EvalCallMain_first_function ==
  /\ evalResult = EvalRunning
  /\ evalPos = Len(ast.declarations)
  /\ "main" \in DOMAIN interp.functions
  /\ \E i \in DOMAIN ast.declarations :
       /\ ast.declarations[i].t = "Function"
       /\ \A j \in 1..(i - 1) : ast.declarations[j].t # "Function"
       /\ \E r \in {call(ast.declarations[i], <<>>, EvalState)} : EvalCalled(r)

\* `if let Some(f) = self.functions.get("main").cloned() { self.call(&f, vec![]) }`
EvalCallMain ==
  /\ evalResult = EvalRunning
  /\ evalPos = Len(ast.declarations)
  /\ "main" \in DOMAIN interp.functions
  /\ \E r \in {call(interp.functions["main"], <<>>, EvalState)} : EvalCalled(r)

\* `else { Ok(Value::Nil) }`
EvalNoMain ==
  /\ evalResult = EvalRunning
  /\ evalPos = Len(ast.declarations)
  /\ "main" \notin DOMAIN interp.functions
  /\ evalResult' = [k |-> "Returned", r |-> [k |-> "Ok", v |-> Value_Nil]]
  /\ UNCHANGED <<ast, interp, evalPos, evalTrace, evalDepths, evalFrames, notInterpVars>>

EvalNext == EvalRegister \/ EvalCallMain \/ EvalNoMain

SpecInterp == EvalInit /\ [][EvalNext]_vars

(***************************************************************************)
(* Properties of the interpreter.                                          *)
(***************************************************************************)
EvalReturned == evalResult.k = "Returned"
EvalEnded == evalResult.k \in {"Returned", "NoReturn"}

\* C8: a return statement executed anywhere in a function body ends the call at
\* once with that value: the next thing that happens after the return statement
\* is that the call returns the value, so no later statement of the function
\* runs and an enclosing loop does not go on.
C8_ReturnEndsTheCall ==
  EvalEnded =>
    \A i \in 1..Len(evalTrace) :
      evalTrace[i].e = "return" =>
        /\ i < Len(evalTrace)
        /\ evalTrace[i + 1].e = "exit"
        /\ evalTrace[i + 1].k = "Ok"
        /\ evalTrace[i + 1].v = evalTrace[i].v

\* the declarations of kind tag, by name; a later declaration replaces an
\* earlier one of the same name
Declared(tag) == {i \in DOMAIN ast.declarations : ast.declarations[i].t = tag}
DeclaredNames(tag) == {ast.declarations[i].name : i \in Declared(tag)}
LastDeclared(tag, n) ==
  ast.declarations[Innermost({i \in Declared(tag) : ast.declarations[i].name = n})]
RegistryOf(tag) == [n \in DeclaredNames(tag) |-> LastDeclared(tag, n)]

\* C9: when eval has returned, every struct and function declaration is
\* registered; if there is a function main, the first thing executed is the call
\* of main with no arguments and eval returns what that call returns (Int(14)
\* and Int(15) for the programs of the tests); if there is none, eval returns
\* Nil and has executed nothing.
C9_EvalCallsMain ==
  EvalReturned =>
    /\ interp.functions = RegistryOf("Function")
    /\ interp.structs = RegistryOf("Struct")
    /\ IF "main" \in DeclaredNames("Function")
       THEN /\ evalTrace # <<>>
            /\ evalTrace[1] = CallEvent(LastDeclared("Function", "main"), <<>>)
            /\ evalTrace[Len(evalTrace)] =
                 [e |-> "exit", f |-> "main", k |-> evalResult.r.k, v |-> evalResult.r.v]
       ELSE evalResult.r = [k |-> "Ok", v |-> Value_Nil] /\ evalTrace = <<>>
    /\ ast = TestArithmetic => evalResult.r = [k |-> "Ok", v |-> Value_Int(14)]
    /\ ast = TestVariables => evalResult.r = [k |-> "Ok", v |-> Value_Int(15)]

\* eval has returned what main returned, in a program that declares a function
\* before main
C9_Witness ==
  /\ EvalReturned
  /\ ast = Program(<<StructS, FnG, Main(<<LetS("x", FALSE, NoneV, Some(LitInt(5))),
                                          Return(Binary(Identifier("x"), "Add", LitInt(1)))>>)>>)
  /\ evalResult.r = [k |-> "Ok", v |-> Value_Int(6)]

\* C10: after eval has returned, with a value or with a RuntimeError, the scope
\* stack holds the global scope only, and it never held less than that.
C10_ScopesPoppedOnEveryExit ==
  /\ EvalReturned => Len(interp.env.scopes) = 1
  /\ \A i \in 1..Len(evalDepths) : evalDepths[i] >= 1

\* the names a block assigns with `name = value;`
Assigned(b) ==
  {b.statements[i].e.target.name :
     i \in {j \in DOMAIN b.statements :
              /\ b.statements[j].t = "Expr"
              /\ b.statements[j].e.t = "Assign"
              /\ b.statements[j].e.target.t = "Identifier"}}

\* C11: after a nested block, the block of an if/else or the body of a while
\* has been evaluated, the scopes are the ones before it except for bindings
\* the block assigned: no name has been added (a `let` of the block is gone) and
\* no other binding has changed (an inner `let` does not overwrite).
C11_BlockScoping ==
  \A i \in 1..Len(evalFrames) :
    LET f == evalFrames[i] IN
    /\ Len(f.after) = Len(f.before)
    /\ \A d \in 1..Len(f.before) :
         /\ DOMAIN f.after[d] = DOMAIN f.before[d]
         /\ \A n \in DOMAIN f.before[d] \ Assigned(f.block) : f.after[d][n] = f.before[d][n]

(***************************************************************************)
(* The type checker (typechecker/types.rs, typechecker/mod.rs).  A         *)
(* ResolvedType is a record tagged by t.  The syntax tree of the model has *)
(* no spans, so a TypeError is its message.                                *)
(***************************************************************************)
Ty(tag) == [t |-> tag]
Ty_Struct(n) == [t |-> "Struct", name |-> n]
Ty_Array(inner) == [t |-> "Array", inner |-> inner]
Ty_Function(params, ret) == [t |-> "Function", params |-> params, ret |-> ret]

RECURSIVE from_parser_type(_)
from_parser_type(ty) ==
  CASE ty.t \in {"Int", "Float", "String", "Bool", "Void"} -> Ty(ty.t)
    [] ty.t = "Named" -> Ty_Struct(ty.name)
    [] ty.t = "Array" -> Ty_Array(from_parser_type(ty.inner))

\* ResolvedType::is_assignable_from: `*self == *other`, or (Float, Int)
is_assignable_from(self, other) ==
  \/ self = other
  \/ self = Ty("Float") /\ other = Ty("Int")

RECURSIVE display_name(_), join_names(_, _)
\* params_str.join(", ") from the i-th parameter on
join_names(params, i) ==
  IF i > Len(params) THEN ""
  ELSE IF i = Len(params) THEN display_name(params[i])
  ELSE display_name(params[i]) \o ", " \o join_names(params, i + 1)
display_name(ty) ==
  CASE ty.t = "Int" -> "int"
    [] ty.t = "Float" -> "float"
    [] ty.t = "String" -> "string"
    [] ty.t = "Bool" -> "bool"
    [] ty.t = "Void" -> "void"
    [] ty.t = "Struct" -> ty.name
    [] ty.t = "Array" -> "[" \o display_name(ty.inner) \o "]"
    [] ty.t = "Function" -> "fn(" \o join_names(ty.params, 1) \o ") -> " \o display_name(ty.ret)
    [] ty.t = "Unknown" -> "<unknown>"
    [] ty.t = "Error" -> "<error>"

Symbol(n, ty, mutable, kind) == [name |-> n, ty |-> ty, mutable |-> mutable, kind |-> kind]

\* A check threads tc, the TypeChecker: the scopes, structs and functions of
\* its SymbolTable, its errors and its current_return_type.
SymbolTable_new == [scopes |-> <<HashMap_new>>, structs |-> HashMap_new, functions |-> HashMap_new]
TypeChecker_new ==
  [scopes |-> SymbolTable_new.scopes, structs |-> SymbolTable_new.structs,
   functions |-> SymbolTable_new.functions, errors |-> <<>>, current_return_type |-> NoneV]

push_error(tc, message) == [tc EXCEPT !.errors = Append(@, message)]

push_scope(tc) == [tc EXCEPT !.scopes = Append(@, HashMap_new)]
pop_scope(tc) == IF Len(tc.scopes) > 1 THEN [tc EXCEPT !.scopes = SubSeq(@, 1, Len(@) - 1)] ELSE tc

\* SymbolTable::define: [err, tc], err the message of Err or NoneV
SymbolTable_define(tc, symbol) ==
  IF symbol.name \in DOMAIN tc.scopes[Len(tc.scopes)]
  THEN [err |-> Some("symbol '" \o symbol.name \o "' already defined in this scope"), tc |-> tc]
  ELSE [err |-> NoneV, tc |-> [tc EXCEPT !.scopes[Len(tc.scopes)] = insert(@, symbol.name, symbol)]]

\* `let _ = self.symbols.define(..)`
define_quietly(tc, symbol) == SymbolTable_define(tc, symbol).tc

\* the outermost scope that holds n is the one found
lookup_outermost(tc, n) ==
  IF Holders(tc, n) = {} THEN NoneV
  ELSE Some(tc.scopes[CHOOSE i \in Holders(tc, n) : \A j \in Holders(tc, n) : i <= j][n])

lookup(tc, n) ==
  IF Holders(tc, n) = {} THEN NoneV ELSE Some(tc.scopes[Innermost(Holders(tc, n))][n])

define_struct(tc, info) ==
  IF info.name \in DOMAIN tc.structs
  THEN [err |-> Some("struct '" \o info.name \o "' already defined"), tc |-> tc]
  ELSE [err |-> NoneV, tc |-> [tc EXCEPT !.structs = insert(@, info.name, info)]]

lookup_struct(tc, n) == IF n \in DOMAIN tc.structs THEN Some(tc.structs[n]) ELSE NoneV

define_function(tc, n, ty) ==
  IF n \in DOMAIN tc.functions
  THEN [err |-> Some("function '" \o n \o "' already defined"), tc |-> tc]
  ELSE [err |-> NoneV, tc |-> [tc EXCEPT !.functions = insert(@, n, ty)]]

\* `if let Err(e) = r { self.errors.push(TypeError { message: e, .. }); }`
push_if_err(r) == IF r.err = NoneV THEN r.tc ELSE push_error(r.tc, r.err.v)

\* a typed result: the ResolvedType and the checker after it
Typed(ty, tc) == [ty |-> ty, tc |-> tc]

infer_literal_type(lit) ==
  CASE lit.t = "Int" -> Ty("Int")
    [] lit.t = "Float" -> Ty("Float")
    [] lit.t = "String" -> Ty("String")
    [] lit.t = "Bool" -> Ty("Bool")

Numeric(ty) == ty.t \in {"Int", "Float"}

check_binary_op(tc, left, op, right) ==
  CASE op \in {"Add", "Sub", "Mul", "Div", "Mod"} ->
         CASE left.t = "Int" /\ right.t = "Int" -> Typed(Ty("Int"), tc)
           [] Numeric(left) /\ Numeric(right) /\ ~(left.t = "Int" /\ right.t = "Int") ->
                Typed(Ty("Float"), tc)
           [] left.t = "String" /\ right.t = "String" /\ op = "Add" -> Typed(Ty("String"), tc)
           [] OTHER ->
                Typed(Ty("Error"),
                      push_error(tc, "cannot apply operator to '" \o display_name(left) \o "' and '"
                                       \o display_name(right) \o "'"))
    [] op \in {"Eq", "Ne", "Lt", "Gt", "Le", "Ge"} ->
         IF left = right \/ (Numeric(left) /\ Numeric(right)) THEN Typed(Ty("Bool"), tc)
         ELSE Typed(Ty("Error"),
                    push_error(tc, "cannot compare '" \o display_name(left) \o "' and '"
                                     \o display_name(right) \o "'"))
    [] op \in {"And", "Or"} ->
         IF left = Ty("Bool") /\ right = Ty("Bool") THEN Typed(Ty("Bool"), tc)
         ELSE Typed(Ty("Error"),
                    push_error(tc, "logical operators require bool operands, found '"
                                     \o display_name(left) \o "' and '" \o display_name(right) \o "'"))
    [] op \in {"BitwiseAnd", "BitwiseOr", "BitwiseXor", "ShiftLeft", "ShiftRight"} ->
         IF left.t = "Int" /\ right.t = "Int" THEN Typed(Ty("Int"), tc)
         ELSE Typed(Ty("Error"),
                    push_error(tc, "bitwise operators require int operands, found '"
                                     \o display_name(left) \o "' and '" \o display_name(right) \o "'"))

check_unary_op(tc, op, operand) ==
  CASE op = "Neg" ->
         IF Numeric(operand) THEN Typed(operand, tc)
         ELSE Typed(Ty("Error"), push_error(tc, "cannot negate '" \o display_name(operand) \o "'"))
    [] op = "Not" ->
         IF operand = Ty("Bool") THEN Typed(Ty("Bool"), tc)
         ELSE Typed(Ty("Error"), push_error(tc, "cannot apply '!' to '" \o display_name(operand) \o "'"))
    [] op = "BitwiseNot" ->
         IF operand = Ty("Int") THEN Typed(Ty("Int"), tc)
         ELSE Typed(Ty("Error"), push_error(tc, "cannot apply '~' to '" \o display_name(operand) \o "'"))

RECURSIVE check_block(_, _), check_stmts(_, _, _), check_statement(_, _), infer_expr_type(_, _),
          check_call_args(_, _, _, _), check_struct_fields(_, _, _, _, _)

check_member_access(tc, obj, field) ==
  CASE obj.t = "Struct" ->
         IF lookup_struct(tc, obj.name) = NoneV
         THEN Typed(Ty("Error"), push_error(tc, "undefined struct '" \o obj.name \o "'"))
         ELSE IF field \in DOMAIN tc.structs[obj.name].fields
         THEN Typed(tc.structs[obj.name].fields[field], tc)
         ELSE Typed(Ty("Error"),
                    push_error(tc, "struct '" \o obj.name \o "' has no field '" \o field \o "'"))
    [] obj.t = "Error" -> Typed(Ty("Error"), tc)
    [] OTHER ->
         Typed(Ty("Error"),
               push_error(tc, "cannot access field '" \o field \o "' on '" \o display_name(obj) \o "'"))

\* the match on arr of check_index, after the index has been checked
index_result(tc, arr) ==
  CASE arr.t = "Array" -> Typed(arr.inner, tc)
    [] arr.t = "String" -> Typed(Ty("String"), tc)
    [] arr.t = "Error" -> Typed(Ty("Error"), tc)
    [] OTHER -> Typed(Ty("Error"), push_error(tc, "cannot index into '" \o display_name(arr) \o "'"))

check_index(tc, arr, idx) ==
  index_result(IF idx # Ty("Int")
               THEN push_error(tc, "array index must be int, found '" \o display_name(idx) \o "'")
               ELSE tc, arr)

\* `for (i, (arg, param)) in args.iter().zip(params.iter()).enumerate()`, from
\* the i-th argument on; gives the checker
check_call_args(tc, args, params, i) ==
  IF i > Len(args) \/ i > Len(params) THEN tc ELSE
  Let([arg \in {infer_expr_type(tc, args[i])} |->
    check_call_args(
      IF is_assignable_from(params[i], arg.ty) THEN arg.tc
      ELSE push_error(arg.tc, "argument " \o ToString(i) \o " type mismatch: expected '"
                                \o display_name(params[i]) \o "', found '" \o display_name(arg.ty) \o "'"),
      args, params, i + 1) ])

check_call(tc, callee, args) ==
  CASE callee.t = "Function" ->
         IF Len(args) # Len(callee.params)
         THEN Typed(callee.ret,
                    push_error(tc, "expected " \o ToString(Len(callee.params)) \o " arguments, found "
                                     \o ToString(Len(args))))
         ELSE Typed(callee.ret, check_call_args(tc, args, callee.params, 1))
    [] callee.t = "Error" -> Typed(Ty("Error"), tc)
    [] OTHER -> Typed(Ty("Error"), push_error(tc, "'" \o display_name(callee) \o "' is not callable"))

\* Expr::StructLit: `for (field_name, value) in fields { .. }` against the
\* fields expected of the struct n, from the i-th provided field on
check_struct_fields(tc, n, expected, fields, i) ==
  IF i > Len(fields) THEN tc ELSE
  Let([value \in {infer_expr_type(tc, fields[i][2])} |->
    check_struct_fields(
      IF fields[i][1] \in DOMAIN expected
      THEN IF is_assignable_from(expected[fields[i][1]], value.ty) THEN value.tc
           ELSE push_error(value.tc, "field '" \o fields[i][1] \o "' expects '"
                                       \o display_name(expected[fields[i][1]]) \o "', found '"
                                       \o display_name(value.ty) \o "'")
      ELSE push_error(value.tc, "struct '" \o n \o "' has no field '" \o fields[i][1] \o "'"),
      n, expected, fields, i + 1) ])

\* Expr::Assign and Expr::CompoundAssign, with the word of the message
check_assign(target, value, word) ==
  Typed(target.ty,
        IF is_assignable_from(target.ty, value.ty) THEN value.tc
        ELSE push_error(value.tc, "cannot " \o word \o " '" \o display_name(value.ty) \o "' to '"
                                    \o display_name(target.ty) \o "'"))

check_increment(operand) ==
  Typed(operand.ty,
        IF Numeric(operand.ty) THEN operand.tc
        ELSE push_error(operand.tc, "cannot increment/decrement '" \o display_name(operand.ty) \o "'"))

\* TypeChecker::infer_expr_type
infer_expr_type(tc, e) ==
  CASE e.t = "Literal" -> Typed(infer_literal_type(e.lit), tc)
    [] e.t = "Identifier" ->
         IF lookup(tc, e.name) = NoneV
         THEN Typed(Ty("Error"), push_error(tc, "undefined variable '" \o e.name \o "'"))
         ELSE Typed(lookup(tc, e.name).v.ty, tc)
    [] e.t = "Binary" ->
         Let([left \in {infer_expr_type(tc, e.l)} |->
         Let([right \in {infer_expr_type(left.tc, e.r)} |->
           check_binary_op(right.tc, left.ty, e.op, right.ty) ]) ])
    [] e.t = "Unary" ->
         Let([operand \in {infer_expr_type(tc, e.x)} |-> check_unary_op(operand.tc, e.op, operand.ty) ])
    [] e.t = "Call" ->
         Let([callee \in {infer_expr_type(tc, e.callee)} |-> check_call(callee.tc, callee.ty, e.args) ])
    [] e.t \in {"Member", "OptionalChain"} ->
         Let([obj \in {infer_expr_type(tc, e.obj)} |-> check_member_access(obj.tc, obj.ty, e.name) ])
    [] e.t = "Index" ->
         Let([arr \in {infer_expr_type(tc, e.obj)} |->
         Let([idx \in {infer_expr_type(arr.tc, e.index)} |-> check_index(idx.tc, arr.ty, idx.ty) ]) ])
    [] e.t = "Assign" ->
         Let([target \in {infer_expr_type(tc, e.target)} |->
         Let([value \in {infer_expr_type(target.tc, e.value)} |-> check_assign(target, value, "assign") ]) ])
    [] e.t = "StructLit" ->
         IF lookup_struct(tc, e.name) = NoneV
         THEN Typed(Ty("Error"), push_error(tc, "undefined struct '" \o e.name \o "'"))
         ELSE Typed(Ty_Struct(e.name),
                    check_struct_fields(tc, e.name, tc.structs[e.name].fields, e.fields, 1))
    [] e.t = "ArrayLit" ->
         IF e.elems = <<>> THEN Typed(Ty_Array(Ty("Unknown")), tc)
         ELSE Let([elem \in {infer_expr_type(tc, e.elems[1])} |-> Typed(Ty_Array(elem.ty), elem.tc) ])
    [] e.t = "Match" -> Typed(Ty("Unknown"), tc)
    [] e.t = "CompoundAssign" ->
         Let([target \in {infer_expr_type(tc, e.target)} |->
         Let([value \in {infer_expr_type(target.tc, e.value)} |->
           check_assign(target, value, "compound assign") ]) ])
    [] e.t \in {"PreIncrement", "PreDecrement", "PostIncrement", "PostDecrement"} ->
         Let([operand \in {infer_expr_type(tc, e.x)} |-> check_increment(operand) ])
    [] e.t = "NullCoalesce" ->
         Let([left \in {infer_expr_type(tc, e.l)} |-> infer_expr_type(left.tc, e.r) ])
    [] e.t = "Nil" -> Typed(Ty("Unknown"), tc)

\* `if cond_type != ResolvedType::Bool { self.errors.push(..) }` of if, while, guard
check_condition(cond, word) ==
  IF cond.ty = Ty("Bool") THEN cond.tc
  ELSE push_error(cond.tc, word \o " condition must be bool, found '" \o display_name(cond.ty) \o "'")

\* push_scope, check_block, pop_scope
check_scoped_block(tc, b) == pop_scope(check_block(push_scope(tc), b))

\* check_let after the initializer: inferred is NoneV or Some of its type
check_let_typed(tc, l, inferred) ==
  LET declared == IF l.ty = NoneV THEN NoneV ELSE Some(from_parser_type(l.ty.v))
      final_type == IF declared # NoneV THEN declared.v
                    ELSE IF inferred # NoneV THEN inferred.v
                    ELSE Ty("Error")
      checked == IF declared # NoneV /\ inferred # NoneV /\ ~is_assignable_from(declared.v, inferred.v)
                 THEN push_error(tc, "type mismatch: expected '" \o display_name(declared.v)
                                       \o "', found '" \o display_name(inferred.v) \o "'")
                 ELSE IF declared = NoneV /\ inferred = NoneV
                 THEN push_error(tc, "cannot infer type without initializer")
                 ELSE tc
  IN push_if_err(SymbolTable_define(checked, Symbol(l.name, final_type, l.mutable, "Variable")))

check_let(tc, l) ==
  IF l.init = NoneV THEN check_let_typed(tc, l, NoneV)
  ELSE Let([init \in {infer_expr_type(tc, l.init.v)} |-> check_let_typed(init.tc, l, Some(init.ty)) ])

\* check_return after the value: return_type is its type, Void without one
check_return_typed(tc, return_type) ==
  IF tc.current_return_type # NoneV /\ ~is_assignable_from(tc.current_return_type.v, return_type)
  THEN push_error(tc, "return type mismatch: expected '" \o display_name(tc.current_return_type.v)
                        \o "', found '" \o display_name(return_type) \o "'")
  ELSE tc

check_return(tc, r) ==
  IF r.value = NoneV THEN check_return_typed(tc, Ty("Void"))
  ELSE Let([value \in {infer_expr_type(tc, r.value.v)} |-> check_return_typed(value.tc, value.ty) ])

check_if(tc, i) ==
  Let([cond \in {infer_expr_type(tc, i.condition)} |->
  Let([then \in {check_scoped_block(check_condition(cond, "if"), i.then_block)} |->
    IF i.else_block = NoneV THEN then ELSE check_scoped_block(then, i.else_block.v) ]) ])

check_while(tc, w) ==
  Let([cond \in {infer_expr_type(tc, w.condition)} |->
    check_scoped_block(check_condition(cond, "while"), w.body) ])

\* the element type of check_for and the checker after the match
for_elem_type(iter) ==
  CASE iter.ty.t = "Array" -> Typed(iter.ty.inner, iter.tc)
    [] iter.ty.t = "Int" -> Typed(Ty("Int"), iter.tc)
    [] OTHER -> Typed(Ty("Error"),
                      push_error(iter.tc, "cannot iterate over '" \o display_name(iter.ty) \o "'"))

check_for(tc, f) ==
  Let([iter \in {infer_expr_type(tc, f.iterable)} |->
  Let([elem \in {for_elem_type(iter)} |->
    pop_scope(check_block(define_quietly(push_scope(elem.tc), Symbol(f.var, elem.ty, FALSE, "Variable")),
                          f.body)) ]) ])

check_try_catch(tc, t) ==
  Let([tried \in {push_scope(check_scoped_block(tc, t.try_block))} |->
    pop_scope(check_block(IF t.catch_var = NoneV THEN tried
                          ELSE define_quietly(tried, Symbol(t.catch_var.v, Ty("String"), FALSE, "Variable")),
                          t.catch_block)) ])

\* TypeChecker::check_statement
check_statement(tc, s) ==
  CASE s.t = "Let" -> check_let(tc, s)
    [] s.t = "Return" -> check_return(tc, s)
    [] s.t = "If" -> check_if(tc, s)
    [] s.t = "While" -> check_while(tc, s)
    [] s.t = "For" -> check_for(tc, s)
    [] s.t = "Expr" -> infer_expr_type(tc, s.e).tc
    [] s.t = "Block" -> check_scoped_block(tc, s.b)
    [] s.t \in {"Break", "Continue"} -> tc
    [] s.t = "Guard" ->
         Let([cond \in {infer_expr_type(tc, s.condition)} |->
           check_scoped_block(check_condition(cond, "guard"), s.else_block) ])
    [] s.t = "Defer" -> check_scoped_block(tc, s.body)
    [] s.t = "TryCatch" -> check_try_catch(tc, s)
    [] s.t = "Throw" -> infer_expr_type(tc, s.value).tc

\* TypeChecker::check_block
check_block(tc, b) == check_stmts(tc, b.statements, 1)
check_stmts(tc, statements, i) ==
  IF i > Len(statements) THEN tc ELSE check_stmts(check_statement(tc, statements[i]), statements, i + 1)

fn_type(params, return_type) ==
  Ty_Function([i \in DOMAIN params |-> from_parser_type(params[i].ty)],
              IF return_type = NoneV THEN Ty("Void") ELSE from_parser_type(return_type.v))

register_struct(tc, s) ==
  push_if_err(define_struct(tc,
    [name |-> s.name,
     fields |-> [n \in {s.fields[i].name : i \in DOMAIN s.fields} |->
                   from_parser_type(s.fields[Innermost({i \in DOMAIN s.fields : s.fields[i].name = n})].ty)]]))

\* register_function and register_extern: define_function, then the symbol
register_function(tc, f) ==
  define_quietly(push_if_err(define_function(tc, f.name, fn_type(f.params, f.return_type))),
                 Symbol(f.name, fn_type(f.params, f.return_type), FALSE, "Function"))
register_extern(tc, e) == register_function(tc, e)

RECURSIVE define_parameters(_, _, _)
\* `for param in &f.params { let _ = self.symbols.define(..); }`
define_parameters(tc, params, i) ==
  IF i > Len(params) THEN tc
  ELSE define_parameters(
         define_quietly(tc, Symbol(params[i].name, from_parser_type(params[i].ty), FALSE, "Parameter")),
         params, i + 1)

check_function(tc, f) ==
  Let([body \in {check_block(
                   [define_parameters(push_scope(tc), f.params, 1) EXCEPT
                      !.current_return_type =
                         IF f.return_type = NoneV THEN NoneV ELSE Some(from_parser_type(f.return_type.v))],
                   f.body)} |->
    pop_scope([body EXCEPT !.current_return_type = NoneV]) ])

(***************************************************************************)
(* Operations applied on their own: an operator applied to two literals    *)
(* (or one), evaluated by the interpreter and checked by the type checker, *)
(* and is_assignable_from applied to two types.                            *)
(***************************************************************************)
BinOps ==
  {"Add", "Sub", "Mul", "Div", "Mod", "Eq", "Ne", "Lt", "Gt", "Le", "Ge", "And", "Or",
   "BitwiseAnd", "BitwiseOr", "BitwiseXor", "ShiftLeft", "ShiftRight"}
UnaryOps == {"Neg", "Not", "BitwiseNot"}

\* operands of each type a literal expression can have
Operands ==
  {LitInt(6), LitInt(0), LitFloat("1.5"), LitString("s"), LitBool(TRUE), LitBool(FALSE), NilE,
   ArrayLit(<<LitInt(1)>>)}

SampleTypes ==
  {Ty("Int"), Ty("Float"), Ty("String"), Ty("Bool"), Ty("Void"), Ty("Unknown"), Ty("Error"),
   Ty_Struct("S"), Ty_Array(Ty("Int")), Ty_Function(<<Ty("Int")>>, Ty("Int"))}

OpInputs ==
  {[k |-> "binary", e |-> Binary(l, op, r)] : l \in Operands, op \in BinOps, r \in Operands}
    \cup {[k |-> "unary", e |-> Unary(op, x)] : op \in UnaryOps, x \in Operands}
    \cup {[k |-> "assignable", target |-> self, source |-> other] :
            self \in SampleTypes, other \in SampleTypes}

OpPending == [k |-> "Pending"]

OpInit ==
  /\ opInput \in OpInputs
  /\ opResult = OpPending
  /\ LexIdle
  /\ ParseIdle
  /\ InterpIdle
  /\ CheckIdle
  /\ EnvIdle

\* the expression of the input is evaluated by Interpreter::expr in a new
\* environment and checked by TypeChecker::infer_expr_type in a new checker
ApplyOperator ==
  /\ opResult = OpPending
  /\ opInput.k \in {"binary", "unary"}
  /\ opResult' =
       [k |-> "Applied",
        value |-> expr(opInput.e, [scopes |-> Environment_new.scopes, trace |-> <<>>, depths |-> <<>>,
                                   frames |-> <<>>, fuel |-> MaxSteps]).k,
        errors |-> infer_expr_type(TypeChecker_new, opInput.e).tc.errors]
  /\ UNCHANGED <<opInput, notOpVars>>

ApplyAssignable ==
  /\ opResult = OpPending
  /\ opInput.k = "assignable"
  /\ opResult' = [k |-> "Applied", assignable |-> is_assignable_from(opInput.target, opInput.source)]
  /\ UNCHANGED <<opInput, notOpVars>>

OpNext == ApplyOperator \/ ApplyAssignable

SpecOps == OpInit /\ [][OpNext]_vars

OpApplied == opResult.k = "Applied"

\* a division or a modulo whose right operand is the integer 0
ByZero(e) == e.t = "Binary" /\ e.op \in {"Div", "Mod"} /\ e.r = LitInt(0)

\* C12: an operator applied to operands of types the type checker accepts
\* evaluates to a value (division and modulo by zero excepted), and applied to
\* operands of types the checker rejects it raises a RuntimeError.
C12_OperatorsAgreeWithChecker ==
  (OpApplied /\ opInput.k \in {"binary", "unary"}) =>
    /\ (opResult.errors = <<>> /\ ~ByZero(opInput.e)) => opResult.value = "Ok"
    /\ opResult.errors # <<>> => opResult.value = "Err"

\* C13: is_assignable_from(target, source) is true exactly when target equals
\* source, or target is Float and source is Int, or either side is Error.
C13_Assignability ==
  (OpApplied /\ opInput.k = "assignable") =>
    (opResult.assignable <=>
       \/ opInput.target = opInput.source
       \/ opInput.target = Ty("Float") /\ opInput.source = Ty("Int")
       \/ opInput.target = Ty("Error")
       \/ opInput.source = Ty("Error"))

(***************************************************************************)
(* The programs given to check_program.                                    *)
(***************************************************************************)
MaxCheckDecls == 3   \* declarations of a program made of the declarations of DeclPool

Fn(n, params, ret, stmts) == FnDecl(n, params, ret, Block(stmts))
LetTyped(n, ty, init) == LetS(n, FALSE, Some(ty), Some(init))

\* struct S { a: int, b: float }
StructAB == StructDecl("S", <<Field("a", TypeT("Int")), Field("b", TypeT("Float"))>>)

\* assignment to x, bound by `let`, `let mut`, a parameter or a for loop
Binders == {"let", "let mut", "param", "for"}
AssignForms == {"=", "+="}
AssignTo(form) ==
  IF form = "=" THEN ExprS(Assign(Identifier("x"), LitInt(2)))
  ELSE ExprS(CompoundAssign(Identifier("x"), "AddEq", LitInt(2)))
AssignProgram(binder, form) ==
  CASE binder = "let" ->
         Program(<<Fn("f", <<>>, NoneV, <<LetS("x", FALSE, NoneV, Some(LitInt(1))), AssignTo(form)>>)>>)
    [] binder = "let mut" ->
         Program(<<Fn("f", <<>>, NoneV, <<LetS("x", TRUE, NoneV, Some(LitInt(1))), AssignTo(form)>>)>>)
    [] binder = "param" ->
         Program(<<Fn("f", <<Param("x", TypeT("Int"))>>, NoneV, <<AssignTo(form)>>)>>)
    [] binder = "for" ->
         Program(<<Fn("f", <<>>, NoneV,
                      <<ForS("x", ArrayLit(<<LitInt(1)>>), Block(<<AssignTo(form)>>))>>)>>)

\* nil where a value of the declared type ty is expected
DeclaredTypes ==
  {TypeT("Int"), TypeT("Float"), TypeT("String"), TypeT("Bool"), TypeNamed("S"), TypeArray(TypeT("Int"))}
NilUses == {"let", "argument", "return"}
NilProgram(use, ty) ==
  CASE use = "let" -> Program(<<StructAB, Fn("f", <<>>, NoneV, <<LetTyped("x", ty, NilE)>>)>>)
    [] use = "argument" ->
         Program(<<StructAB, Fn("g", <<Param("a", ty)>>, NoneV, <<>>),
                   Fn("f", <<>>, NoneV, <<ExprS(Call(Identifier("g"), <<NilE>>))>>)>>)
    [] use = "return" -> Program(<<StructAB, Fn("f", <<>>, Some(ty), <<Return(NilE)>>)>>)

\* `let p: S = S { .. };` with each declared field left out, given a value of
\* its type, of an assignable type, or of another type, and with or without a
\* field the struct does not declare
FieldA == {"absent", "int", "string"}
FieldB == {"absent", "float", "int", "string"}
FieldValue(v) ==
  CASE v = "int" -> LitInt(1) [] v = "float" -> LitFloat("1.5") [] v = "string" -> LitString("s")
Provided(n, v) == IF v = "absent" THEN <<>> ELSE << <<n, FieldValue(v)>> >>
StructLitProgram(a, b, z) ==
  Program(<<StructAB,
            Fn("f", <<>>, NoneV,
               <<LetTyped("p", TypeNamed("S"),
                          StructLitE("S", Provided("a", a) \o Provided("b", b)
                                            \o (IF z THEN << <<"z", LitInt(1)>> >> ELSE <<>>)))>>)>>)

\* `return e;` or `return;` in a function declared with or without `-> type`
ReturnTypes == {NoneV, Some(TypeT("Int")), Some(TypeT("Float")), Some(TypeT("String")), Some(TypeT("Void"))}
ReturnValues == {NoneV, Some(LitInt(1)), Some(LitFloat("1.5")), Some(LitString("s"))}
ReturnProgram(ret, value) == Program(<<Fn("f", <<>>, ret, <<ReturnS(value)>>)>>)

\* a call in f, with g declared as fn g(a: int, b: float) -> int and x an int
Callees == {"g", "x", "u"}
ArgLists ==
  { <<>>, <<LitInt(1)>>, <<LitInt(1), LitFloat("1.5")>>, <<LitInt(1), LitInt(2)>>,
    <<LitInt(1), LitString("s")>>, <<LitString("s"), LitString("s")>>,
    <<Identifier("y")>>, <<Identifier("y"), LitFloat("1.5")>>,
    <<LitInt(1), LitFloat("1.5"), Identifier("y")>> }
CallProgram(callee, args) ==
  Program(<<Fn("g", <<Param("a", TypeT("Int")), Param("b", TypeT("Float"))>>, Some(TypeT("Int")),
               <<Return(LitInt(0))>>),
            Fn("f", <<>>, NoneV,
               <<LetS("x", FALSE, NoneV, Some(LitInt(1))),
                 LetTyped("r", TypeT("Int"), Call(Identifier(callee), args))>>)>>)

\* declarations in any order and number:
\* fn main() { let r: int = g(1); let p = S { a: 1 }; }
FnMain ==
  Fn("main", <<>>, NoneV,
     <<LetTyped("r", TypeT("Int"), Call(Identifier("g"), <<LitInt(1)>>)),
       LetS("p", FALSE, NoneV, Some(StructLitE("S", << <<"a", LitInt(1)>> >>)))>>)
\* fn g(a: int) -> int { return a; }     fn g() -> string { return "s"; }
FnGInt == Fn("g", <<Param("a", TypeT("Int"))>>, Some(TypeT("Int")), <<Return(Identifier("a"))>>)
FnGString == Fn("g", <<>>, Some(TypeT("String")), <<Return(LitString("s"))>>)
\* extern fn g(a: int) -> int;
ExternG == ExternDecl("g", <<Param("a", TypeT("Int"))>>, Some(TypeT("Int")))
\* struct S { a: int }     struct S { b: string }
StructA == StructDecl("S", <<Field("a", TypeT("Int"))>>)
StructB == StructDecl("S", <<Field("b", TypeT("String"))>>)
\* fn a() { y; }     fn b() { let z: int = "s"; w; }     fn c() { let q = 1; }
FnBadA == Fn("a", <<>>, NoneV, <<ExprS(Identifier("y"))>>)
FnBadB == Fn("b", <<>>, NoneV, <<LetTyped("z", TypeT("Int"), LitString("s")), ExprS(Identifier("w"))>>)
FnOk == Fn("c", <<>>, NoneV, <<LetS("q", FALSE, NoneV, Some(LitInt(1)))>>)
DeclPool == {FnMain, FnGInt, FnGString, ExternG, StructA, StructB, FnBadA, FnBadB, FnOk, ImportDecl(<<"m">>)}

CheckInputs ==
  {[k |-> "assign", binder |-> b, form |-> f] : b \in Binders, f \in AssignForms}
    \cup {[k |-> "nil", use |-> u, ty |-> ty] : u \in NilUses, ty \in DeclaredTypes}
    \cup {[k |-> "struct_lit", a |-> a, b |-> b, z |-> z] : a \in FieldA, b \in FieldB, z \in BOOLEAN}
    \cup {[k |-> "return", ret |-> r, value |-> v] : r \in ReturnTypes, v \in ReturnValues}
    \cup {[k |-> "call", callee |-> c, args |-> a] : c \in Callees, a \in ArgLists}
    \cup {[k |-> "decls", ds |-> ds] : ds \in SeqsUpTo(DeclPool, MaxCheckDecls)}

ProgramOf(input) ==
  CASE input.k = "assign" -> AssignProgram(input.binder, input.form)
    [] input.k = "nil" -> NilProgram(input.use, input.ty)
    [] input.k = "struct_lit" -> StructLitProgram(input.a, input.b, input.z)
    [] input.k = "return" -> ReturnProgram(input.ret, input.value)
    [] input.k = "call" -> CallProgram(input.callee, input.args)
    [] input.k = "decls" -> Program(input.ds)

(***************************************************************************)
(* TypeChecker::new().check_program(ast) as a state machine: a turn of     *)
(* the first loop, a turn of the second loop, the return.                  *)
(***************************************************************************)
CheckRunning == [k |-> "Running"]

CheckInit ==
  /\ checkInput \in CheckInputs
  /\ checkAst = ProgramOf(checkInput)
  /\ checker = TypeChecker_new
  /\ checkTurn = 0
  /\ checkResult = CheckRunning
  /\ LexIdle
  /\ ParseIdle
  /\ InterpIdle
  /\ OpIdle
  /\ EnvIdle

\* first pass: `match decl { Decl::Struct(s) => self.register_struct(s), .. }`
register_declaration(tc, decl) ==
  CASE decl.t = "Struct" -> register_struct(tc, decl)
    [] decl.t = "Function" -> register_function(tc, decl)
    [] decl.t = "Extern" -> register_extern(tc, decl)
    [] decl.t = "Import" -> tc

\* second pass: `if let Decl::Function(f) = decl { self.check_function(f); }`
check_declaration(tc, decl) == IF decl.t = "Function" THEN check_function(tc, decl) ELSE tc

\* a single pass: the body of a function is checked when it is registered
RegisterDeclaration_and_check ==
  /\ checkResult = CheckRunning
  /\ checkTurn < Len(checkAst.declarations)
  /\ \E decl \in {checkAst.declarations[checkTurn + 1]} :
       checker' = check_declaration(register_declaration(checker, decl), decl)
  /\ checkTurn' = checkTurn + 1
  /\ UNCHANGED <<checkInput, checkAst, checkResult, notCheckVars>>

\* a turn of the first loop of check_program
RegisterDeclaration ==
  /\ checkResult = CheckRunning
  /\ checkTurn < Len(checkAst.declarations)
  /\ \E decl \in {checkAst.declarations[checkTurn + 1]} :
       checker' = register_declaration(checker, decl)
  /\ checkTurn' = checkTurn + 1
  /\ UNCHANGED <<checkInput, checkAst, checkResult, notCheckVars>>

\* the second loop stops at the first function with a diagnostic
CheckDeclaration_until_first_error ==
  /\ checkResult = CheckRunning
  /\ checkTurn >= Len(checkAst.declarations)
  /\ checkTurn < 2 * Len(checkAst.declarations)
  /\ \E decl \in {checkAst.declarations[checkTurn - Len(checkAst.declarations) + 1]} :
       checker' = IF checker.errors = <<>> THEN check_declaration(checker, decl) ELSE checker
  /\ checkTurn' = checkTurn + 1
  /\ UNCHANGED <<checkInput, checkAst, checkResult, notCheckVars>>

\* a turn of the second loop of check_program
CheckDeclaration ==
  /\ checkResult = CheckRunning
  /\ checkTurn >= Len(checkAst.declarations)
  /\ checkTurn < 2 * Len(checkAst.declarations)
  /\ \E decl \in {checkAst.declarations[checkTurn - Len(checkAst.declarations) + 1]} :
       checker' = check_declaration(checker, decl)
  /\ checkTurn' = checkTurn + 1
  /\ UNCHANGED <<checkInput, checkAst, checkResult, notCheckVars>>

\* `if self.errors.is_empty() { Ok(()) } else { Err(self.errors.clone()) }`
CheckProgramReturn ==
  /\ checkResult = CheckRunning
  /\ checkTurn = 2 * Len(checkAst.declarations)
  /\ checkResult' = IF checker.errors = <<>> THEN [k |-> "Ok"]
                    ELSE [k |-> "Err", errors |-> checker.errors]
  /\ UNCHANGED <<checkInput, checkAst, checker, checkTurn, notCheckVars>>

CheckNext == RegisterDeclaration \/ CheckDeclaration \/ CheckProgramReturn

SpecCheck == CheckInit /\ [][CheckNext]_vars

CheckReturned == checkResult.k \in {"Ok", "Err"}
\* the diagnostics of a returned check
Diagnostics == IF checkResult.k = "Err" THEN checkResult.errors ELSE <<>>

\* the diagnostics of a returned check hold the message m
Reported(m) == \E i \in DOMAIN Diagnostics : Diagnostics[i] = m
\* how many times
Count(m) == Cardinality({i \in DOMAIN Diagnostics : Diagnostics[i] = m})

\* C14: an assignment or compound assignment to an identifier bound by `let`
\* without `mut`, by a parameter or by a for loop gives a diagnostic, and one
\* to an identifier bound by `let mut` gives none.
C14_MutabilityEnforced ==
  (CheckReturned /\ checkInput.k = "assign") =>
    (Diagnostics # <<>> <=> checkInput.binder # "let mut")

\* C15: `let x: T = nil;`, nil passed for a parameter of type T and
\* `return nil;` in a function returning T give no diagnostic.
C15_NilChecksAgainstEveryType ==
  (CheckReturned /\ checkInput.k = "nil") => Diagnostics = <<>>

\* the diagnostics the claim expects of the literal S { a, b, z } for struct S { a: int, b: float }
ExpectedOfStructLit(a, b, z) ==
  (IF z THEN {"struct 'S' has no field 'z'"} ELSE {})
    \cup (IF a = "string" THEN {"field 'a' expects 'int', found 'string'"} ELSE {})
    \cup (IF b = "string" THEN {"field 'b' expects 'float', found 'string'"} ELSE {})
OmittedFields(a, b) == (IF a = "absent" THEN 1 ELSE 0) + (IF b = "absent" THEN 1 ELSE 0)

\* C16: a struct literal gives one diagnostic for each provided field the
\* struct does not declare, for each provided value not assignable to the
\* declared field type and for each declared field it omits, and no other; its
\* type is the struct's, so `let p: S = S { .. };` gives no type mismatch.
C16_StructLiteralDiagnostics ==
  (CheckReturned /\ checkInput.k = "struct_lit") =>
    /\ \A m \in ExpectedOfStructLit(checkInput.a, checkInput.b, checkInput.z) : Count(m) = 1
    /\ Len(Diagnostics) =
         Cardinality(ExpectedOfStructLit(checkInput.a, checkInput.b, checkInput.z))
           + OmittedFields(checkInput.a, checkInput.b)

\* the return type R of the claim and the type of the returned value
ReturnTypeR(ret) == IF ret = NoneV THEN Ty("Void") ELSE from_parser_type(ret.v)
ReturnedType(value) == IF value = NoneV THEN Ty("Void") ELSE infer_literal_type(value.v.lit)

\* C17: in a function whose return type is R (Void without `-> type`),
\* `return e;` gives a 'return type mismatch' diagnostic exactly when the type
\* of e is not assignable to R, and `return;` exactly when R is not Void.
C17_ReturnChecked ==
  (CheckReturned /\ checkInput.k = "return") =>
    LET R == ReturnTypeR(checkInput.ret)
        found == ReturnedType(checkInput.value)
    IN IF is_assignable_from(R, found) THEN Diagnostics = <<>>
       ELSE Diagnostics = <<"return type mismatch: expected '" \o display_name(R) \o "', found '"
                              \o display_name(found) \o "'">>

\* the type of an argument of ArgLists: y is not defined
ArgType(e) == IF e.t = "Identifier" THEN Ty("Error") ELSE infer_literal_type(e.lit)
ParamsOfG == <<Ty("Int"), Ty("Float")>>

\* C18: a call of g(a: int, b: float) -> int gives a diagnostic when it has not
\* two arguments and one for each argument not assignable to its parameter,
\* every argument is type-checked whatever their number (the undefined y is
\* reported), the call has type int, and a call of the int x gives a 'not
\* callable' diagnostic.
C18_CallChecked ==
  (CheckReturned /\ checkInput.k = "call") =>
    LET args == checkInput.args IN
    /\ checkInput.callee = "g" =>
         /\ Reported("expected 2 arguments, found " \o ToString(Len(args))) <=> Len(args) # 2
         /\ \A i \in DOMAIN args \cap DOMAIN ParamsOfG :
              ~is_assignable_from(ParamsOfG[i], ArgType(args[i])) =>
                Reported("argument " \o ToString(i) \o " type mismatch: expected '"
                           \o display_name(ParamsOfG[i]) \o "', found '"
                           \o display_name(ArgType(args[i])) \o "'")
         /\ (\E i \in DOMAIN args : args[i] = Identifier("y")) => Reported("undefined variable 'y'")
         /\ ~Reported("type mismatch: expected 'int', found '<error>'")
    /\ checkInput.callee = "x" => Reported("'int' is not callable")

\* the checker after the first n declarations of ds have been registered
RECURSIVE Registered(_, _)
Registered(ds, n) ==
  IF n = 0 THEN TypeChecker_new ELSE register_declaration(Registered(ds, n - 1), ds[n])

\* the diagnostics of the body of the declaration ds[i], checked on its own
\* once every declaration of ds is registered
BodyDiagnostics(ds, i) ==
  check_declaration([Registered(ds, Len(ds)) EXCEPT !.errors = <<>>], ds[i]).errors

\* those of the first n declarations of ds, in the order of the declarations
RECURSIVE BodiesDiagnostics(_, _)
BodiesDiagnostics(ds, n) ==
  IF n = 0 THEN <<>> ELSE BodiesDiagnostics(ds, n - 1) \o BodyDiagnostics(ds, n)

Occurrences(ds, decl) == Cardinality({i \in DOMAIN ds : ds[i] = decl})

\* C19: check_program checks the body of every function whatever the
\* diagnostics before it: the errors it returns are the diagnostics of the
\* first pass followed by those of each function body in the order of the
\* declarations, and it returns Ok exactly when there is none.
C19_ErrorsCollected ==
  CheckReturned =>
    LET ds == checkAst.declarations IN
    /\ Diagnostics = Registered(ds, Len(ds)).errors \o BodiesDiagnostics(ds, Len(ds))
    /\ Count("undefined variable 'y'") >= Occurrences(ds, FnBadA)
    /\ Count("undefined variable 'w'") >= Occurrences(ds, FnBadB)
    /\ Count("type mismatch: expected 'int', found 'string'") >= Occurrences(ds, FnBadB)
    /\ checkResult.k = "Ok" <=> checker.errors = <<>>
    /\ checkResult.k = "Err" => checkResult.errors = checker.errors

\* fn a() { y; } declared twice, then fn b() { let z: int = "s"; w; }: every
\* body is checked after the duplicate-name diagnostic of the first pass
C19_Witness ==
  /\ checkInput = [k |-> "decls", ds |-> <<FnBadA, FnBadA, FnBadB>>]
  /\ checkResult =
       [k |-> "Err",
        errors |-> <<"function 'a' already defined", "undefined variable 'y'", "undefined variable 'y'",
                     "type mismatch: expected 'int', found 'string'", "undefined variable 'w'">>]

\* the declarations of ds of the given kinds, by name
Named(ds, kinds, n) == {i \in DOMAIN ds : ds[i].t \in kinds /\ ds[i].name = n}
NamesOf(ds, kinds) == {ds[i].name : i \in {j \in DOMAIN ds : ds[j].t \in kinds}}
First(ds, kinds, n) == ds[CHOOSE i \in Named(ds, kinds, n) : \A j \in Named(ds, kinds, n) : i <= j]
Functions == {"Function", "Extern"}
Structs == {"Struct"}

\* C20: once the first loop is over, and so before any function body is
\* checked, every struct, function and extern of the program is registered
\* with the signature of its first declaration; a name declared later than its
\* use gives no 'undefined' diagnostic, and each further declaration of a name
\* gives one duplicate-name diagnostic.
C20_TwoPasses ==
  (checkResult # [k |-> "Idle"] /\ checkTurn >= Len(checkAst.declarations)) =>
    LET ds == checkAst.declarations IN
    /\ DOMAIN checker.functions = NamesOf(ds, Functions)
    /\ DOMAIN checker.structs = NamesOf(ds, Structs)
    /\ \A n \in NamesOf(ds, Functions) :
         /\ checker.functions[n] = fn_type(First(ds, Functions, n).params, First(ds, Functions, n).return_type)
         /\ checker.scopes[1][n].ty = checker.functions[n]
         /\ \A i \in DOMAIN checker.errors : checker.errors[i] # "undefined variable '" \o n \o "'"
         /\ CheckReturned =>
              Count("function '" \o n \o "' already defined") = Cardinality(Named(ds, Functions, n)) - 1
    /\ \A n \in NamesOf(ds, Structs) :
         /\ checker.structs[n] = register_struct(TypeChecker_new, First(ds, Structs, n)).structs[n]
         /\ \A i \in DOMAIN checker.errors : checker.errors[i] # "undefined struct '" \o n \o "'"
         /\ CheckReturned =>
              Count("struct '" \o n \o "' already defined") = Cardinality(Named(ds, Structs, n)) - 1

\* main calls g(1) and is declared before fn g(a: int) -> int, which is
\* declared before fn g() -> string: the call resolves with the first g
C20_Witness ==
  /\ checkInput = [k |-> "decls", ds |-> <<FnMain, FnGInt, FnGString>>]
  /\ checkResult = [k |-> "Err", errors |-> <<"function 'g' already defined", "undefined struct 'S'">>]

\* the statements of main, when the program has one
MainBody == IF "main" \in DeclaredNames("Function") THEN LastDeclared("Function", "main").body.statements ELSE <<>>
\* main is `return match x { .. };`
ReturnsMatch ==
  /\ Len(MainBody) = 1
  /\ MainBody[1].t = "Return"
  /\ MainBody[1].value # NoneV
  /\ MainBody[1].value.v.t = "Match"
\* the value of a scrutinee of Scrutinees: seven() is 7
ScrutineeValue(x) ==
  CASE x.t = "Literal" -> literal(x.lit)
    [] x.t = "Nil" -> Value_Nil
    [] x.t = "Call" -> Value_Int(7)
\* the pattern p matches the value v, as the claim has it
Matches(p, v) == p.t \in {"Wildcard", "Identifier"} \/ (p.t = "Literal" /\ eq(literal(p.lit), v))
\* the arms of m whose pattern matches v
MatchingArms(m, v) == {i \in DOMAIN m.arms : Matches(m.arms[i].pattern, v)}
\* how many times the function named n was called
CallsOf(n) == Cardinality({i \in DOMAIN evalTrace : evalTrace[i].e = "call" /\ evalTrace[i].f = n})

\* C21: `return match x { .. };` returns the body of the first arm whose
\* pattern matches the value of x, a literal pattern matching exactly when the
\* value equals the literal, and Nil when no arm matches; x is evaluated once.
C21_MatchEvaluation ==
  (EvalReturned /\ ReturnsMatch) =>
    LET m == MainBody[1].value.v
        v == ScrutineeValue(m.scrutinee)
    IN /\ evalResult.r =
            [k |-> "Ok",
             v |-> IF MatchingArms(m, v) = {} THEN Value_Nil
                   ELSE expr(m.arms[CHOOSE i \in MatchingArms(m, v) : \A j \in MatchingArms(m, v) : i <= j].body,
                             EvalState).v]
       /\ m.scrutinee.t = "Call" => CallsOf("seven") = 1

\* what the claim has eval return for main calling h with the body b: h has
\* no x of its own unless it declares one
ScopedResult(b) ==
  CASE b[1] = Return(Identifier("x")) -> [k |-> "Err", v |-> "undefined: x"]
    [] b[1].t = "Expr" -> [k |-> "Err", v |-> "undef"]
    [] OTHER -> [k |-> "Ok", v |-> Value_Int(5)]

\* C22: a called function sees its parameters, its locals and the global
\* scope only: reading or assigning the caller's local x in the callee raises a
\* RuntimeError, and x of the caller is still 5 after a call that returns.
C22_LexicalScopingOfCalls ==
  EvalReturned =>
    \A b \in CalleeBodies, through \in BOOLEAN :
      ast = ScopeProgram(b, through) => evalResult.r = ScopedResult(b)

\* the names of the functions called, in the order of the calls
Called == [i \in DOMAIN SelectSeq(evalTrace, LAMBDA ev : ev.e = "call") |->
             SelectSeq(evalTrace, LAMBDA ev : ev.e = "call")[i].f]

\* C25: in x() op y(), h(x(), y()) and x(); y(); the call of x comes first
\* and is over before y is called, h is called after both its arguments, and
\* when x raises a RuntimeError nothing after it is evaluated.
C25_EvaluationOrder ==
  EvalReturned =>
    \A form \in OrderForms, x \in Callees0, y \in Callees0 :
      ast = OrderProgram(form, x, y) =>
        /\ Called = <<"main", x>> \o (IF x = "e" THEN <<>> ELSE <<y>>)
                       \o (IF form = "call" /\ x # "e" /\ y # "e" THEN <<"h">> ELSE <<>>)
        /\ (x = "e" \/ y = "e") => evalResult.r = [k |-> "Err", v |-> "/"]
        /\ \A i \in DOMAIN evalTrace :
             (evalTrace[i].e = "call" /\ evalTrace[i].f = y /\ x # y) =>
               \E j \in 1..(i - 1) : evalTrace[j].e = "exit" /\ evalTrace[j].f = x

\* main is `return h(a(), b());`: a, then b, then h
C25_Witness ==
  /\ EvalReturned
  /\ ast = OrderProgram("call", "a", "b")
  /\ Called = <<"main", "a", "b", "h">>
  /\ evalResult.r = [k |-> "Ok", v |-> Value_Int(3)]

\* C30: a compound assignment, an increment or decrement, and a guard, defer,
\* try/catch or throw statement yield Nil, evaluate none of their operands,
\* conditions and blocks (a is never called) and leave x as it was.
C30_InertForms ==
  EvalReturned =>
    \A s0 \in InertStmts, returns \in BOOLEAN :
      ast = InertProgram(s0, returns) =>
        /\ evalResult.r = [k |-> "Ok", v |-> IF returns THEN Value_Int(5) ELSE Value_Nil]
        /\ Called = <<"main">>

\* main is `let x = 5; x += a(); return x;` and eval has returned 5
C30_Witness ==
  /\ EvalReturned
  /\ ast = InertProgram(ExprS(CompoundAssign(Identifier("x"), "AddEq", Call0("a"))), TRUE)
  /\ evalResult.r = [k |-> "Ok", v |-> Value_Int(5)]
  /\ Called = <<"main">>

(***************************************************************************)
(* An Environment operated on its own: any sequence of push, pop, define,  *)
(* set (through Expr::Assign) and get from Environment::new() on.          *)
(***************************************************************************)
MaxScopes == 3   \* push is not taken beyond that many scopes
EnvNames == {"x", "y"}
EnvValues == {Value_Int(1), Value_Int(2)}

\* env as an evaluation state
EnvState == [scopes |-> env, trace |-> <<>>, depths |-> <<>>, frames |-> <<>>, fuel |-> MaxSteps]

EnvInit ==
  /\ env = Environment_new.scopes
  /\ envOp = [op |-> "new"]
  /\ LexIdle
  /\ ParseIdle
  /\ InterpIdle
  /\ OpIdle
  /\ CheckIdle

EnvPush ==
  /\ envOp.op # "Idle"
  /\ Len(env) < MaxScopes
  /\ env' = Environment_push(EnvState).scopes
  /\ envOp' = [op |-> "push", before |-> env]
  /\ UNCHANGED notEnvVars

EnvPop ==
  /\ envOp.op # "Idle"
  /\ env' = Environment_pop(EnvState).scopes
  /\ envOp' = [op |-> "pop", before |-> env]
  /\ UNCHANGED notEnvVars

EnvDefine ==
  /\ envOp.op # "Idle"
  /\ \E n \in EnvNames, v \in EnvValues :
       /\ env' = Environment_define(EnvState, n, v).scopes
       /\ envOp' = [op |-> "define", n |-> n, v |-> v, before |-> env]
  /\ UNCHANGED notEnvVars

EnvGet ==
  /\ envOp.op # "Idle"
  /\ \E n \in EnvNames :
       envOp' = [op |-> "get", n |-> n, before |-> env, result |-> Environment_get(EnvState, n)]
  /\ UNCHANGED <<env, notEnvVars>>

\* `n = v;`: Expr::Assign with the value v
EnvSet ==
  /\ envOp.op # "Idle"
  /\ \E n \in EnvNames, v \in EnvValues :
       \E r \in {assign(Identifier(n), v, EnvState)} :
         /\ env' = r.st.scopes
         /\ envOp' = [op |-> "set", n |-> n, v |-> v, before |-> env, result |-> [k |-> r.k, v |-> r.v]]
  /\ UNCHANGED notEnvVars

EnvNext == EnvPush \/ EnvPop \/ EnvDefine \/ EnvGet \/ EnvSet

SpecEnv == EnvInit /\ [][EnvNext]_vars

\* the scope of scopes that is the innermost to define n, 0 when none does
InnermostDefining(scopes, n) ==
  IF \A i \in DOMAIN scopes : n \notin DOMAIN scopes[i] THEN 0
  ELSE CHOOSE i \in DOMAIN scopes :
         /\ n \in DOMAIN scopes[i]
         /\ \A j \in DOMAIN scopes : j > i => n \notin DOMAIN scopes[j]

\* after differs from before at most in the binding of n in the scope d
SameBut(before, after, d, n) ==
  /\ Len(after) = Len(before)
  /\ \A i \in DOMAIN before :
       /\ DOMAIN after[i] \ {n} = DOMAIN before[i] \ {n}
       /\ i # d => DOMAIN after[i] = DOMAIN before[i]
       /\ \A m \in DOMAIN before[i] : (i # d \/ m # n) => after[i][m] = before[i][m]

\* C23: get gives the binding of the innermost scope that defines the name;
\* set changes that binding only and, when no scope defines the name, fails
\* with a RuntimeError and creates no binding; define binds in the top scope
\* only; push adds an empty scope and pop removes the top one, never the last.
C23_EnvironmentOperations ==
  LET before == envOp.before
      d == InnermostDefining(before, envOp.n)
  IN /\ envOp.op = "get" =>
          envOp.result = IF d = 0 THEN NoneV ELSE Some(before[d][envOp.n])
     /\ envOp.op = "set" =>
          IF d = 0 THEN envOp.result = [k |-> "Err", v |-> "undef"] /\ env = before
          ELSE /\ envOp.result = [k |-> "Ok", v |-> envOp.v]
               /\ SameBut(before, env, d, envOp.n)
               /\ env[d][envOp.n] = envOp.v
     /\ envOp.op = "define" =>
          /\ SameBut(before, env, Len(before), envOp.n)
          /\ envOp.n \in DOMAIN env[Len(env)]
          /\ env[Len(env)][envOp.n] = envOp.v
     /\ envOp.op = "push" => env = Append(before, <<>>)
     /\ envOp.op = "pop" =>
          env = IF Len(before) > 1 THEN SubSeq(before, 1, Len(before) - 1) ELSE before

\* x is 1 in the global scope and in the scope above it, and `x = 2;` has
\* changed the inner binding only
C23_Witness ==
  /\ envOp.op = "set"
  /\ envOp.n = "x"
  /\ Len(env) = 2
  /\ "x" \in DOMAIN envOp.before[1] /\ "x" \in DOMAIN envOp.before[2]
  /\ env[1]["x"] = Value_Int(1)
  /\ env[2]["x"] = Value_Int(2)

(***************************************************************************)
(* The SymbolTable operated on its own: any sequence of push_scope,        *)
(* pop_scope, define and lookup from SymbolTable::new() on; and            *)
(* check_program on functions whose statements open scopes.                *)
(***************************************************************************)
SymbolNames == {"x", "y"}
SymbolTypes == {Ty("Int"), Ty("String")}

\* statements that open a scope, with a `let`, an error or a return in it
Undefined == ExprS(Identifier("u"))
LetA == LetS("a", FALSE, NoneV, Some(LitInt(1)))
ScopedStmts ==
  { IfS(LitBool(TRUE), Block(<<LetA>>), Some(Block(<<LetA, Undefined>>))),
    IfS(Identifier("u"), Block(<<Return(LitInt(1))>>), NoneV),
    WhileS(LitInt(1), Block(<<LetA, ReturnS(NoneV)>>)),
    ForS("i", ArrayLit(<<LitInt(1)>>), Block(<<LetS("i", FALSE, NoneV, Some(LitInt(2)))>>)),
    ForS("i", LitString("s"), Block(<<Undefined>>)),
    BlockS(Block(<<LetA, BlockS(Block(<<LetA, Undefined>>))>>)),
    GuardS(LitInt(1), Block(<<LetA, ReturnS(NoneV)>>)),
    DeferS(Block(<<LetA>>)),
    TryCatchS(Block(<<LetA, ThrowS(Identifier("u"))>>), Some("err"), Block(<<LetS("err", FALSE, NoneV, Some(LitInt(1)))>>)),
    LetA }
ScopedProgram(s1, s2) ==
  Program(<<Fn("f", <<Param("p", TypeT("Int"))>>, NoneV, <<s1, s2>>), Fn("g", <<>>, NoneV, <<s2>>)>>)

SymbolInputs ==
  {[k |-> "symbols"]} \cup {[k |-> "scoped", s1 |-> s1, s2 |-> s2] : s1 \in ScopedStmts, s2 \in ScopedStmts}

SymbolInit ==
  /\ checkInput \in SymbolInputs
  /\ checkAst = IF checkInput.k = "symbols" THEN Program(<<>>) ELSE ScopedProgram(checkInput.s1, checkInput.s2)
  /\ checker = TypeChecker_new
  /\ checkTurn = 0
  /\ checkResult = IF checkInput.k = "symbols" THEN [k |-> "Symbols", op |-> "new"] ELSE CheckRunning
  /\ LexIdle
  /\ ParseIdle
  /\ InterpIdle
  /\ OpIdle
  /\ EnvIdle

SymbolsPushScope ==
  /\ checkResult.k = "Symbols"
  /\ Len(checker.scopes) < MaxScopes
  /\ checker' = push_scope(checker)
  /\ checkResult' = [k |-> "Symbols", op |-> "push_scope", before |-> checker.scopes]
  /\ UNCHANGED <<checkInput, checkAst, checkTurn, notCheckVars>>

SymbolsPopScope ==
  /\ checkResult.k = "Symbols"
  /\ checker' = pop_scope(checker)
  /\ checkResult' = [k |-> "Symbols", op |-> "pop_scope", before |-> checker.scopes]
  /\ UNCHANGED <<checkInput, checkAst, checkTurn, notCheckVars>>

SymbolsDefine ==
  /\ checkResult.k = "Symbols"
  /\ \E n \in SymbolNames, ty \in SymbolTypes :
       \E r \in {SymbolTable_define(checker, Symbol(n, ty, FALSE, "Variable"))} :
         /\ checker' = r.tc
         /\ checkResult' = [k |-> "Symbols", op |-> "define", n |-> n, ty |-> ty,
                            before |-> checker.scopes, result |-> r.err]
  /\ UNCHANGED <<checkInput, checkAst, checkTurn, notCheckVars>>

SymbolsLookup ==
  /\ checkResult.k = "Symbols"
  /\ \E n \in SymbolNames :
       checkResult' = [k |-> "Symbols", op |-> "lookup", n |-> n, before |-> checker.scopes,
                       result |-> lookup(checker, n)]
  /\ UNCHANGED <<checkInput, checkAst, checker, checkTurn, notCheckVars>>

SymbolNext ==
  \/ SymbolsPushScope \/ SymbolsPopScope \/ SymbolsDefine \/ SymbolsLookup
  \/ RegisterDeclaration \/ CheckDeclaration \/ CheckProgramReturn

SpecSymbols == SymbolInit /\ [][SymbolNext]_vars

\* C24: lookup gives the symbol of the innermost scope that defines the name;
\* pop_scope removes the top scope and what it defined, so that a shadowed
\* symbol is found again, and never the global scope; define fails exactly
\* when the top scope has the name and then changes nothing; when
\* check_program has returned, and between two function bodies, the global
\* scope is the only scope and holds the functions alone.
C24_SymbolTableScoping ==
  /\ checkResult.k = "Symbols" =>
       LET before == checkResult.before
           d == InnermostDefining(before, checkResult.n)
       IN /\ Len(checker.scopes) >= 1
          /\ checkResult.op = "lookup" =>
               checkResult.result = IF d = 0 THEN NoneV ELSE Some(before[d][checkResult.n])
          /\ checkResult.op = "push_scope" => checker.scopes = Append(before, <<>>)
          /\ checkResult.op = "pop_scope" =>
               /\ checker.scopes = IF Len(before) > 1 THEN SubSeq(before, 1, Len(before) - 1) ELSE before
               /\ \A n \in SymbolNames :
                    lookup(checker, n) =
                      IF \E i \in 1..Len(checker.scopes) : n \in DOMAIN before[i]
                      THEN Some(before[InnermostDefining(checker.scopes, n)][n])
                      ELSE NoneV
          /\ checkResult.op = "define" =>
               IF checkResult.n \in DOMAIN before[Len(before)]
               THEN /\ checkResult.result =
                         Some("symbol '" \o checkResult.n \o "' already defined in this scope")
                    /\ checker.scopes = before
               ELSE /\ checkResult.result = NoneV
                    /\ SameBut(before, checker.scopes, Len(before), checkResult.n)
                    /\ checker.scopes[Len(before)][checkResult.n] =
                         Symbol(checkResult.n, checkResult.ty, FALSE, "Variable")
  /\ (checkResult.k \in {"Running", "Ok", "Err"} /\ checkInput.k = "scoped") =>
       /\ Len(checker.scopes) = 1
       /\ DOMAIN checker.scopes[1] \subseteq {"f", "g"}
       /\ CheckReturned => DOMAIN checker.scopes[1] = {"f", "g"}

\* x is an int in the global scope and a string in the scope above it, which
\* has just been popped: x is the int again
C24_Witness ==
  /\ checkResult.k = "Symbols"
  /\ checkResult.op = "pop_scope"
  /\ Len(checkResult.before) = 2
  /\ "x" \in DOMAIN checkResult.before[2]
  /\ checkResult.before[2]["x"].ty = Ty("String")
  /\ Len(checker.scopes) = 1
  /\ lookup(checker, "x") = Some(Symbol("x", Ty("Int"), FALSE, "Variable"))

\* C28: `import a.b.c;` parses to the Import declaration of path [a, b, c],
\* and `import a;` to the one of path [a].
C28_DottedImportPath ==
  (ParseReturned /\ parseInput.k = "import" /\ parseInput.sep = <<".">>) =>
    /\ parseResult.stderr = <<>>
    /\ parseResult.program = Program(<<ImportDecl(parseInput.path)>>)

(***************************************************************************)
(* Properties of the lexer: numbers and comments.                          *)
(***************************************************************************)
\* the index after the longest run of decimal digits that starts at index i
RECURSIVE DigitsEnd(_)
DigitsEnd(i) == IF i <= Len(source) /\ source[i] \in AsciiDigits THEN DigitsEnd(i + 1) ELSE i

KindsOf(ts) == [k \in 1..Len(ts) |-> ts[k].kind]

\* C26: a token that starts at a decimal digit run followed by '.' and a digit
\* is one FloatLit of the run, the '.' and the digits after it, and no more;
\* followed by anything else it is the IntLit of the run, and a '.' after it
\* starts the next token (Dot or DotDot).  1.a is IntLit, Dot, Ident; 1..2 is
\* IntLit, DotDot, IntLit; 1.5.2 is FloatLit, Dot, IntLit.
C26_DecimalNumberScanning ==
  (lexResult.k = "Ok" /\ source \in SeqsUpTo(NumChars, NumLen)) =>
    /\ \A k \in 1..Len(tokens) - 1 :
         LET t == tokens[k]
             i == t.span.start + 1
             p == DigitsEnd(i)
             q == DigitsEnd(p + 1)
             fraction == p + 1 <= Len(source) /\ source[p] = "." /\ source[p + 1] \in AsciiDigits
             end == IF fraction THEN q ELSE p
         IN source[i] \in AsciiDigits =>
              /\ t.span.end = end - 1
              /\ t.kind.tag = IF fraction THEN "FloatLit" ELSE "IntLit"
              /\ fraction =>
                   t.kind = NormFloat(ParseRadix(SubSeq(source, i, p - 1) \o SubSeq(source, p + 1, q - 1), 10, 0),
                                      q - p - 1)
              /\ ~fraction => t.kind = IntLit(ParseRadix(SubSeq(source, i, p - 1), 10, 0))
              /\ (end <= Len(source) /\ source[end] = ".") =>
                   /\ tokens[k + 1].span.start = end - 1
                   /\ tokens[k + 1].kind \in {Tk("Dot"), Tk("DotDot")}
    /\ source = <<"1", ".", "a">> => KindsOf(tokens) = <<IntLit(1), Tk("Dot"), Ident("a"), Tk("Eof")>>
    /\ source = <<"1", ".", ".", "2">> => KindsOf(tokens) = <<IntLit(1), Tk("DotDot"), IntLit(2), Tk("Eof")>>
    /\ source = <<"1", ".", "5", ".", "2">> =>
         KindsOf(tokens) = <<FloatLit(15, 1), Tk("Dot"), IntLit(2), Tk("Eof")>>

\* 1.5.2 has been tokenized
C26_Witness ==
  /\ lexResult.k = "Ok"
  /\ source = <<"1", ".", "5", ".", "2">>
  /\ Len(tokens) = 4
  /\ tokens[1].kind.tag = "FloatLit"

\* The identifiers outside the comments of a text of `/*`, `*/`, a and
\* spaces, read from index i at comment depth `depth`; cur is the identifier
\* being read.  Closed is FALSE for a text with `*/` outside a comment or
\* with another character, of which the claim says nothing.
RECURSIVE Outside(_, _, _, _)
Outside(i, depth, cur, acc) ==
  LET flushed == IF cur = "" THEN acc ELSE Append(acc, Ident(cur))
      pair == IF i + 1 <= Len(source) THEN <<source[i], source[i + 1]>> ELSE <<>>
  IN IF i > Len(source) THEN [closed |-> TRUE, idents |-> flushed, depth |-> depth]
     ELSE IF pair = <<"/", "*">> THEN Outside(i + 2, depth + 1, "", flushed)
     ELSE IF pair = <<"*", "/">>
     THEN IF depth = 0 THEN [closed |-> FALSE] ELSE Outside(i + 2, depth - 1, "", flushed)
     ELSE IF source[i] = " " THEN Outside(i + 1, depth, "", flushed)
     ELSE IF source[i] = "a"
     THEN IF depth = 0 THEN Outside(i + 1, 0, cur \o "a", acc) ELSE Outside(i + 1, depth, "", flushed)
     ELSE [closed |-> FALSE]

\* C27: block comments nest.  `/*` opens a comment or adds one to its depth,
\* `*/` takes one from it, and the comment ends where the depth is 0 again:
\* the tokens are the identifiers outside the comments and Eof, whatever the
\* comments hold, and a comment that is still open at the end of the input
\* ends there without an error.
C27_BlockCommentsNest ==
  lexResult.k # "Running" =>
    LET o == Outside(1, 0, "", <<>>) IN
    o.closed => (lexResult.k = "Ok" /\ KindsOf(tokens) = Append(o.idents, Tk("Eof")))

\* a /* a /* */ */ a has been tokenized: two identifiers
C27_Witness ==
  /\ lexResult.k = "Ok"
  /\ source = <<"a", " ", "/", "*", " ", "a", " ", "/", "*", " ", "*", "/", " ", "*", "/", " ", "a">>
  /\ KindsOf(tokens) = <<Ident("a"), Ident("a"), Tk("Eof")>>

(***************************************************************************)
(* Progress of the parser.                                                 *)
(***************************************************************************)
EofIndex == Len(ptokens) - 1

\* the postfix operations a chain has put around the expression `base`
RECURSIVE Links(_, _)
Links(e, base) ==
  IF e = base THEN 0
  ELSE IF e.t = "Call" THEN 1 + Links(e.callee, base)
  ELSE IF e.t \in {"Member", "OptionalChain", "Index"} THEN 1 + Links(e.obj, base)
  ELSE 1 + Links(e.x, base)

\* a loop that began at cursor c and returned r went on to r.cur, within the
\* tokens, and each of its `items` iterations consumed a token
Consumed(r, c, items) ==
  r.ok => (c <= r.cur /\ r.cur <= EofIndex /\ items <= r.cur - c)

LoopsConsume(c) ==
  /\ \E r \in {parse_declaration(c)} : r.ok => (c < r.cur /\ r.cur <= EofIndex)
  /\ \E r \in {parse_statement(c)} : r.ok => (c < r.cur /\ r.cur <= EofIndex)
  /\ \E r \in {parse_expression(c)} : r.ok => (c < r.cur /\ r.cur <= EofIndex)
  /\ \E r \in {block_loop(<<>>, c)} : Consumed(r, c, IF r.ok THEN Len(r.v) ELSE 0)
  /\ \E r \in {struct_fields_loop(<<>>, c)} : Consumed(r, c, IF r.ok THEN Len(r.v) ELSE 0)
  /\ \E r \in {param_list_loop(<<>>, c)} : Consumed(r, c, IF r.ok THEN Len(r.v) ELSE 0)
  /\ \E r \in {arg_list_loop(<<>>, c)} : Consumed(r, c, IF r.ok THEN Len(r.v) ELSE 0)
  /\ \E r \in {struct_lit_loop(<<>>, c)} : Consumed(r, c, IF r.ok THEN Len(r.v) ELSE 0)
  /\ \E r \in {array_lit_loop(<<>>, c)} : Consumed(r, c, IF r.ok THEN Len(r.v) ELSE 0)
  /\ \E r \in {match_arms_loop(<<>>, c)} : Consumed(r, c, IF r.ok THEN Len(r.v) ELSE 0)
  /\ \E r \in {call_loop(Identifier("e"), c)} :
       Consumed(r, c, IF r.ok THEN Links(r.v, Identifier("e")) ELSE 0)
  /\ \E r \in {postfix_loop(Identifier("e"), c)} :
       Consumed(r, c, IF r.ok THEN Links(r.v, Identifier("e")) ELSE 0)

\* C29: the parser terminates and stays inside the token stream.  The cursor
\* is never past the index of Eof; begun at any token, a declaration, a
\* statement and an expression that parse consume at least one token, and the
\* loops of block statements, struct fields, parameters, arguments, literal
\* fields and elements, match arms and the postfix chains consume at least one
\* token per iteration (the tokens never change: this is checked where parse
\* begins); each step of parse_program moves the cursor forward or returns, so
\* it returns within as many steps as there are tokens.
C29_ParserTerminatesInsideTokens ==
  /\ [](ptokens # <<>> =>
          /\ current \in 0..EofIndex
          /\ ptokens[Len(ptokens)].kind = Tk("Eof")
          /\ (parseResult = ParseRunning /\ current = 0) => \A c \in 0..EofIndex : LoopsConsume(c))
  /\ [][parseResult = ParseRunning =>
          \/ parseResult' = ParseRunning /\ current < current' /\ current' <= EofIndex
          \/ ParseReturned' /\ current' = current]_vars

\* both declarations of `fn q() { match .. }` and `fn m(..) { .. z++; }` are parsed
C29_Witness ==
  /\ ParseReturned
  /\ parseInput.k = "decls"
  /\ Len(parseInput.ds) = 2
  /\ parseResult.stderr = <<>>
  /\ current = EofIndex
  /\ \E i, j \in 1..EofIndex : ptokens[i].kind = Tk("Match") /\ ptokens[j].kind = Tk("PlusPlus")

====
